---- MODULE Spec2Model ----
(***************************************************************************)
(* Model of the project-tracker analytics of GlobalDrones/Reports:         *)
(* app/github_projects.py (status bucketing, difficulty mapping, duplicate *)
(* detection, item fetch and the burn-up of load_project_charts).          *)
(*                                                                         *)
(* Conventions                                                             *)
(*  - Python str is a TLA+ string; "" also stands for None wherever the    *)
(*    code only tests truthiness (`if not value`, `x or default`).         *)
(*  - A date is the number of days since 2024-01-01 (day 0); NoDate is     *)
(*    Python's None for an optional date/datetime.  A datetime is modelled *)
(*    by its calendar day, the only part load_project_charts reads         *)
(*    (every use is `.date()`).                                            *)
(*  - A float is a fixed-point integer counting 1/Scale units.             *)
(***************************************************************************)
EXTENDS Integers, Sequences, FiniteSets, TLC

VARIABLES
    pc,                  \* position of the modelled call
    arg,                 \* argument of the helper under check (pure-function specs)
    ret,                 \* value the helper returned
    nodes,               \* raw tracker nodes the GraphQL pages have delivered so far
    items,               \* list[ProjectItem] built by fetch_project_items
    reference_date,      \* load_project_charts parameter (NoDate = None)
    milestone_month,     \* load_project_charts parameter ("" = None)
    week_id,             \* load_project_charts parameter ("" = None)
    charts,              \* what load_project_charts computed (see LoadProjectCharts)
    _auth_failed,        \* integrations/github.py: the module-level flag
    retry,               \* the calls of the fetch routines: call id -> its locals
    now,                 \* scheduler: the wall clock
    thread,              \* scheduler: the daemon thread of start_scheduler and its locals
    sent,                \* scheduler: state["sent"]
    deliveries,          \* scheduler: the send calls made so far, with their outcome
    reports,             \* db: the rows of table reports
    tasks,               \* db: the rows of table tasks
    submissions          \* routes/reports.py: the POST requests, request id -> request

\* the state of load_project_charts and of the helpers checked alone
chartVars ==
    <<pc, arg, ret, nodes, items, reference_date, milestone_month, week_id, charts>>

\* the state of the fetch routines
retryVars == <<_auth_failed, retry>>

\* the state of the scheduler
schedulerVars == <<now, thread, sent, deliveries>>

\* the state of the report store and of the requests to it
reportVars == <<reports, tasks, submissions>>

vars == <<chartVars, retryVars, schedulerVars, reportVars>>

\* no fetch routine was called: the flag has its initial value, and retry
\* (the locals of a call, the responses it received and the delays it slept)
\* is that of no call
IdleRetry ==
    /\ _auth_failed = FALSE
    /\ retry = [routine |-> "", max_attempts |-> 0, attempt |-> 0, pc |-> "none",
                exc |-> "", responses |-> <<>>, delays |-> <<>>]

\* the scheduler was not started: no thread (thread holds where the thread is,
\* pc, and the index i of the schedule its pass visits next)
IdleScheduler ==
    /\ now = 0
    /\ thread = [pc |-> "none", i |-> 0]
    /\ sent = {}
    /\ deliveries = <<>>

\* an empty store and no request
IdleReports ==
    /\ reports = {}
    /\ tasks = <<>>
    /\ submissions = <<>>

----------------------------------------------------------------------------
(* Bounds of the model *)

\* number of raw nodes the tracker delivers
MaxItems == 3
\* number of words combined in one status text
MaxStatusWords == 2
\* number of labels on one item of the duplicate check
MaxLabels == 2
\* length of a generated difficulty label
MaxLabelLen == 3

----------------------------------------------------------------------------
(* str helpers *)

UpperChars == "ABCDEFGHIJKLMNOPQRSTUVWXYZÍ"
LowerChars == "abcdefghijklmnopqrstuvwxyzí"
Whitespace == {" ", "\t", "\n"}

CharAt(s, i) == SubSeq(s, i, i)

IndexIn(alphabet, c) ==
    IF \E i \in 1..Len(alphabet) : CharAt(alphabet, i) = c
    THEN CHOOSE i \in 1..Len(alphabet) : CharAt(alphabet, i) = c
    ELSE 0

\* the character table that takes each character of `from` to the one of `to`
CharMap(from, to) ==
    [c \in {CharAt(from, i) : i \in 1..Len(from)} |-> CharAt(to, IndexIn(from, c))]

ToLower == CharMap(UpperChars, LowerChars)
ToUpper == CharMap(LowerChars, UpperChars)

RECURSIVE MapChars(_, _)
MapChars(s, table) ==
    IF s = "" THEN ""
    ELSE LET c == CharAt(s, 1)
         IN (IF c \in DOMAIN table THEN table[c] ELSE c) \o MapChars(Tail(s), table)

\* str.lower()
lower(s) == MapChars(s, ToLower)

\* str.upper()
upper(s) == MapChars(s, ToUpper)

RECURSIVE lstrip(_)
lstrip(s) ==
    IF s # "" /\ CharAt(s, 1) \in Whitespace THEN lstrip(Tail(s)) ELSE s

RECURSIVE rstrip(_)
rstrip(s) ==
    IF s # "" /\ CharAt(s, Len(s)) \in Whitespace
    THEN rstrip(SubSeq(s, 1, Len(s) - 1))
    ELSE s

\* str.strip()
strip(s) == rstrip(lstrip(s))

\* key in s
Contains(s, key) ==
    \E i \in 0..(Len(s) - Len(key)) : SubSeq(s, i + 1, i + Len(key)) = key

\* s.startswith(key)
startswith(s, key) ==
    Len(key) <= Len(s) /\ SubSeq(s, 1, Len(key)) = key

----------------------------------------------------------------------------
(* _bucket_status *)

\* faulty variant: the done keywords are tested before the duplicate keywords
BucketStatusDoneFirst(status) ==
    LET normalized == lower(strip(status)) IN
    IF normalized = "" THEN "no_status"
    ELSE IF \E key \in {"cancel", "canceled", "cancelled"} : Contains(normalized, key)
    THEN "cancelled"
    ELSE IF \E key \in {"done", "concl", "closed", "finalizado"} : Contains(normalized, key)
    THEN "done"
    ELSE IF \E key \in {"duplicate", "duplicado"} : Contains(normalized, key)
    THEN "duplicate"
    ELSE IF \E key \in {"review", "revis", "qa"} : Contains(normalized, key)
    THEN "review"
    ELSE IF \E key \in {"progress", "andamento", "doing", "wip"} : Contains(normalized, key)
    THEN "progress"
    ELSE IF \E key \in {"blocked", "bloqueado", "imped"} : Contains(normalized, key)
    THEN "blocked"
    ELSE "backlog"

_bucket_status(status) ==
    LET normalized == lower(strip(status)) IN
    IF normalized = "" THEN "no_status"
    ELSE IF \E key \in {"cancel", "canceled", "cancelled"} : Contains(normalized, key)
    THEN "cancelled"
    ELSE IF \E key \in {"duplicate", "duplicado"} : Contains(normalized, key)
    THEN "duplicate"
    ELSE IF \E key \in {"done", "concl", "closed", "finalizado"} : Contains(normalized, key)
    THEN "done"
    ELSE IF \E key \in {"review", "revis", "qa"} : Contains(normalized, key)
    THEN "review"
    ELSE IF \E key \in {"progress", "andamento", "doing", "wip"} : Contains(normalized, key)
    THEN "progress"
    ELSE IF \E key \in {"blocked", "bloqueado", "imped"} : Contains(normalized, key)
    THEN "blocked"
    ELSE IF \E key \in {"backlog", "todo", "pendente", "to do", "ready", "planning"} :
                Contains(normalized, key)
    THEN "backlog"
    ELSE "backlog"

----------------------------------------------------------------------------
(* float, _safe_float, _parse_numeric_from_text, _map_difficulty_label *)

\* fixed-point unit: a float v is the integer v * Scale
Scale == 10 * 10

Digits == "0123456789"

IsDigit(c) == IndexIn(Digits, c) # 0

DigitVal(c) == IndexIn(Digits, c) - 1

\* last index of the run of digits that starts at index j (s[j] is a digit)
RECURSIVE DigitsEnd(_, _)
DigitsEnd(s, j) ==
    IF j < Len(s) /\ IsDigit(CharAt(s, j + 1)) THEN DigitsEnd(s, j + 1) ELSE j

\* int(digits)
RECURSIVE IntVal(_)
IntVal(digits) ==
    IF digits = "" THEN 0
    ELSE 10 * IntVal(SubSeq(digits, 1, Len(digits) - 1)) + DigitVal(CharAt(digits, Len(digits)))

\* the fraction 0.digits in fixed point, unit being the weight of the first digit * 10
RECURSIVE FracVal(_, _)
FracVal(digits, unit) ==
    IF digits = "" THEN 0
    ELSE (DigitVal(CharAt(digits, 1)) * unit) \div 10 + FracVal(Tail(digits), unit \div 10)

\* re.search(r"-?\d+(?:[\.,]\d+)?", value) can start a match at index i
MatchStartsAt(s, i) ==
    \/ IsDigit(CharAt(s, i))
    \/ CharAt(s, i) = "-" /\ i < Len(s) /\ IsDigit(CharAt(s, i + 1))

\* float(value) of a number field; None and anything float() rejects give 0.0.
\* number is [ok |-> BOOLEAN, value |-> fixed point]
_safe_float(number) == IF number.ok THEN number.value ELSE 0

_parse_numeric_from_text(value) ==
    IF value = "" THEN 0
    ELSE IF ~ \E i \in 1..Len(value) : MatchStartsAt(value, i) THEN 0
    ELSE LET i == CHOOSE k \in 1..Len(value) :
                      /\ MatchStartsAt(value, k)
                      /\ \A m \in 1..(k - 1) : ~ MatchStartsAt(value, m)
             neg == CharAt(value, i) = "-"
             j == IF neg THEN i + 1 ELSE i
             e == DigitsEnd(value, j)
             hasFrac == /\ e + 2 <= Len(value)
                        /\ CharAt(value, e + 1) \in {".", ","}
                        /\ IsDigit(CharAt(value, e + 2))
             frac == IF hasFrac THEN SubSeq(value, e + 2, DigitsEnd(value, e + 2)) ELSE ""
             magnitude == IntVal(SubSeq(value, j, e)) * Scale + FracVal(frac, Scale)
         IN IF neg THEN 0 - magnitude ELSE magnitude

\* scale_map, in insertion order
scale_map ==
    << <<"XS", 1 * Scale>>, <<"S", 2 * Scale>>, <<"M", 3 * Scale>>, <<"L", 4 * Scale>>,
       <<"XL", 5 * Scale>>, <<"P0", 5 * Scale>>, <<"P1", 4 * Scale>>, <<"P2", 3 * Scale>>,
       <<"P3", 2 * Scale>>, <<"P4", 1 * Scale>> >>

\* faulty variant: a numeric literal in the label is looked for first, the scale second
MapDifficultyNumericFirst(label) ==
    IF label = "" THEN 0
    ELSE LET normalized == upper(strip(label))
             hits == {k \in 1..Len(scale_map) : startswith(normalized, scale_map[k][1])}
         IN IF \E i \in 1..Len(label) : MatchStartsAt(label, i)
            THEN _parse_numeric_from_text(label)
            ELSE IF hits # {}
            THEN scale_map[CHOOSE k \in hits : \A m \in hits : k <= m][2]
            ELSE 0

\* faulty variant: a scale key is looked for anywhere in the label
MapDifficultyKeyAnywhere(label) ==
    IF label = "" THEN 0
    ELSE LET normalized == upper(strip(label))
             hits == {k \in 1..Len(scale_map) : Contains(normalized, scale_map[k][1])}
         IN IF hits # {}
            THEN scale_map[CHOOSE k \in hits : \A m \in hits : k <= m][2]
            ELSE _parse_numeric_from_text(label)

_map_difficulty_label(label) ==
    IF label = "" THEN 0
    ELSE LET normalized == upper(strip(label))
             hits == {k \in 1..Len(scale_map) : startswith(normalized, scale_map[k][1])}
         IN IF hits # {}
            THEN scale_map[CHOOSE k \in hits : \A m \in hits : k <= m][2]
            ELSE _parse_numeric_from_text(label)

\* app/integrations/github.py: _parse_numeric_from_text, the same search on str(value)
github_parse_numeric_from_text(value) ==
    IF value = "" THEN 0
    ELSE IF ~ \E i \in 1..Len(value) : MatchStartsAt(value, i) THEN 0
    ELSE LET i == CHOOSE k \in 1..Len(value) :
                      /\ MatchStartsAt(value, k)
                      /\ \A m \in 1..(k - 1) : ~ MatchStartsAt(value, m)
             neg == CharAt(value, i) = "-"
             j == IF neg THEN i + 1 ELSE i
             e == DigitsEnd(value, j)
             hasFrac == /\ e + 2 <= Len(value)
                        /\ CharAt(value, e + 1) \in {".", ","}
                        /\ IsDigit(CharAt(value, e + 2))
             frac == IF hasFrac THEN SubSeq(value, e + 2, DigitsEnd(value, e + 2)) ELSE ""
             magnitude == IntVal(SubSeq(value, j, e)) * Scale + FracVal(frac, Scale)
         IN IF neg THEN 0 - magnitude ELSE magnitude

\* app/integrations/github.py: _map_difficulty_label
github_map_difficulty_label(label) ==
    IF label = "" THEN 0
    ELSE LET normalized == upper(strip(label))
             hits == {k \in 1..Len(scale_map) : startswith(normalized, scale_map[k][1])}
         IN IF hits # {}
            THEN scale_map[CHOOSE k \in hits : \A m \in hits : k <= m][2]
            ELSE github_parse_numeric_from_text(label)

----------------------------------------------------------------------------
(* ProjectItem and _is_duplicate_item *)

NoDate == 0 - 1

\* faulty variant: labels are compared as written, without strip().lower()
IsDuplicateItemExactLabel(item) ==
    \/ _bucket_status(item.status) = "duplicate"
    \/ \E k \in 1..Len(item.labels) : item.labels[k] \in {"duplicate", "duplicado"}

_is_duplicate_item(item) ==
    \/ _bucket_status(item.status) = "duplicate"
    \/ LET labels == [k \in 1..Len(item.labels) |-> lower(strip(item.labels[k]))]
       IN \E k \in 1..Len(labels) : labels[k] \in {"duplicate", "duplicado"}

----------------------------------------------------------------------------
(* datetime.date arithmetic: a date is its day number, 2023-01-01 being day 0 *)

IsLeap(year) == (year % 4 = 0 /\ year % 100 # 0) \/ year % 400 = 0

_days_in_month(year, month) ==
    IF month = 2 THEN (IF IsLeap(year) THEN 28 + 1 ELSE 28)
    ELSE IF month \in {4, 6, 9, 11} THEN 30
    ELSE 31

RECURSIVE DaysBeforeYear(_)
DaysBeforeYear(year) ==
    IF year <= 2023 THEN 0
    ELSE DaysBeforeYear(year - 1) + (IF IsLeap(year - 1) THEN 366 ELSE 365)

RECURSIVE DaysBeforeMonth(_, _)
DaysBeforeMonth(year, month) ==
    IF month <= 1 THEN 0
    ELSE DaysBeforeMonth(year, month - 1) + _days_in_month(year, month - 1)

\* date(year, month, day)
date(year, month, day) == DaysBeforeYear(year) + DaysBeforeMonth(year, month) + day - 1

YearOf(d) == CHOOSE y \in 2023..2026 : DaysBeforeYear(y) <= d /\ d < DaysBeforeYear(y + 1)

MonthOf(d) ==
    LET y == YearOf(d)
    IN CHOOSE m \in 1..12 :
           date(y, m, 1) <= d /\ d < date(y, m, 1) + _days_in_month(y, m)

DayOf(d) == d - date(YearOf(d), MonthOf(d), 1) + 1

\* the `while month <= 0` loop of _subtract_months
RECURSIVE NormalizeMonth(_, _)
NormalizeMonth(year, month) ==
    IF month <= 0 THEN NormalizeMonth(year - 1, month + 12) ELSE <<year, month>>

Min(a, b) == IF a <= b THEN a ELSE b

\* faulty variant: the months are added
SubtractMonthsAdds(value, months) ==
    LET month == MonthOf(value) + months
        year == IF month > 12 THEN YearOf(value) + 1 ELSE YearOf(value)
        m == IF month > 12 THEN month - 12 ELSE month
    IN date(year, m, Min(DayOf(value), _days_in_month(year, m)))

_subtract_months(value, months) ==
    LET ym == NormalizeMonth(YearOf(value), MonthOf(value) - months)
        day == Min(DayOf(value), _days_in_month(ym[1], ym[2]))
    IN date(ym[1], ym[2], day)

\* months of history the burn-up window covers
BurnupMonths == 5

\* datetime.utcnow().date() / date.today() during the modelled call
Today == date(2024, 7, 31)

----------------------------------------------------------------------------
(* _normalize_text, _milestone_matches, _get_latest_milestone *)

AccentedChars == "íÍ"
BaseChars == "iI"

\* unicodedata.normalize("NFKD", value) with the combining marks dropped
StripAccents(s) == MapChars(s, CharMap(AccentedChars, BaseChars))

_normalize_text(value) ==
    IF value = "" THEN "" ELSE strip(lower(StripAccents(value)))

_milestone_matches(value, target) ==
    IF value = "" \/ target = "" THEN FALSE
    ELSE Contains(_normalize_text(value), _normalize_text(target))

\* item.iteration_end or item.created_at.date()
ItemDate(item) ==
    IF item.iteration_end # NoDate THEN item.iteration_end ELSE item.created_at

\* milestone_dates[m]: the latest ItemDate among the items of milestone m
MilestoneDate(its, m) ==
    LET ds == {ItemDate(its[k]) : k \in {j \in 1..Len(its) : its[j].milestone = m}}
    IN CHOOSE d \in ds : \A e \in ds : e <= d

\* max(milestone_dates.items(), key=date): the first inserted key of maximal date
_get_latest_milestone(its) ==
    LET tagged == {k \in 1..Len(its) : its[k].milestone # ""}
    IN IF tagged = {} THEN ""
       ELSE LET best == CHOOSE d \in {MilestoneDate(its, its[k].milestone) : k \in tagged} :
                            \A k \in tagged : MilestoneDate(its, its[k].milestone) <= d
                first == CHOOSE k \in tagged :
                            /\ MilestoneDate(its, its[k].milestone) = best
                            /\ \A j \in tagged :
                                   MilestoneDate(its, its[j].milestone) = best => k <= j
            IN its[first].milestone

----------------------------------------------------------------------------
(* fetch_project_items: one raw node of a GraphQL page -> one ProjectItem.   *)
(* A raw node carries at most one value per project field.  stateReason and  *)
(* isArchived are attributes the tracker holds and the query never selects.  *)

\* a field value by __typename ("" = the field is not set on the node)
FieldDifficulty(field) ==
    IF field.type = "ProjectV2ItemFieldNumberValue" THEN _safe_float(field.number)
    ELSE IF field.type = "ProjectV2ItemFieldSingleSelectValue"
    THEN _map_difficulty_label(field.text)
    ELSE IF field.type = "ProjectV2ItemFieldTextValue" THEN _map_difficulty_label(field.text)
    ELSE 0

FieldEstimate(field) ==
    IF field.type = "ProjectV2ItemFieldNumberValue" THEN _safe_float(field.number)
    ELSE IF field.type = "ProjectV2ItemFieldTextValue"
    THEN _parse_numeric_from_text(field.text)
    ELSE IF field.type = "ProjectV2ItemFieldSingleSelectValue"
    THEN _parse_numeric_from_text(field.text)
    ELSE 0

\* A raw timestamp or date is a day number, NoDate (null or "") or Malformed (a
\* string fromisoformat rejects with ValueError).
Malformed == 0 - 2

\* faulty variant: the ValueError of fromisoformat is not caught
ParseDatetimeNoCatch(value) == value

\* _parse_datetime: None for a missing value and for one fromisoformat rejects
_parse_datetime(value) == IF value = NoDate \/ value = Malformed THEN NoDate ELSE value

\* _parse_date
_parse_date(value) == IF value = NoDate \/ value = Malformed THEN NoDate ELSE value

\* the ProjectItem(...) the loop body appends for a node
ProjectItem(node) ==
    LET created == _parse_datetime(node.createdAt)
        start == IF node.iterationId # "" THEN _parse_date(node.iterationStart) ELSE NoDate
    IN
    [ created_at |-> IF created # NoDate THEN created ELSE Today,
      status |-> node.status,
      status_updated_at |-> _parse_datetime(node.statusUpdatedAt),
      iteration_title |-> IF node.iterationId # "" THEN node.iterationTitle ELSE "",
      iteration_start |-> start,
      iteration_end |-> IF start # NoDate THEN start + node.iterationDuration ELSE NoDate,
      milestone |-> node.milestone,
      difficulty |-> FieldDifficulty(node.difficulty),
      estimate_hours |-> FieldEstimate(node.estimate),
      labels |-> [k \in 1..Len(node.labels) |-> strip(node.labels[k])],
      content_type |-> node.typename ]

\* faulty variant: the loop body without `if content_type == "PullRequest": continue`
FetchNodeKeepPullRequests(its, node) == Append(its, ProjectItem(node))

\* the loop body of fetch_project_items for one node
FetchNode(its, node) ==
    IF node.typename = "PullRequest" THEN its ELSE Append(its, ProjectItem(node))

----------------------------------------------------------------------------
(* dict and list helpers *)

EmptyDict == <<>>

Get(d, k, default) == IF k \in DOMAIN d THEN d[k] ELSE default

Put(d, k, v) == [x \in (DOMAIN d) \cup {k} |-> IF x = k THEN v ELSE d[x]]

\* faulty variant: the keys in descending order
RECURSIVE SortedDescending(_)
SortedDescending(S) ==
    IF S = {} THEN <<>>
    ELSE LET m == CHOOSE x \in S : \A y \in S : y <= x
         IN <<m>> \o SortedDescending(S \ {m})

\* sorted(S) of a set of dates
RECURSIVE sorted(_)
sorted(S) ==
    IF S = {} THEN <<>>
    ELSE LET m == CHOOSE x \in S : \A y \in S : x <= y
         IN <<m>> \o sorted(S \ {m})

----------------------------------------------------------------------------
(* load_project_charts: filtering, burn-up window and burn-up series *)

\* faulty variant: the reference-date filter is left out
FilteredItemsNoReference(its, ref, month) ==
    LET target == IF month = "" THEN _get_latest_milestone(its) ELSE month
        InMilestone(item) ==
            item.milestone # "" /\ _milestone_matches(item.milestone, target)
    IN IF target # "" THEN SelectSeq(its, InMilestone) ELSE its

\* the items left after the milestone filter and the reference-date filter
FilteredItems(its, ref, month) ==
    LET target == IF month = "" THEN _get_latest_milestone(its) ELSE month
        InMilestone(item) ==
            item.milestone # "" /\ _milestone_matches(item.milestone, target)
        byMilestone == IF target # "" THEN SelectSeq(its, InMilestone) ELSE its
        CreatedByRef(item) == item.created_at <= ref
    IN IF ref # NoDate THEN SelectSeq(byMilestone, CreatedByRef) ELSE byMilestone

\* milestone_end_date of a non-empty item list
MilestoneEndDate(its) ==
    CHOOSE d \in {ItemDate(its[k]) : k \in 1..Len(its)} :
        \A k \in 1..Len(its) : ItemDate(its[k]) <= d

\* faulty variant: the latest item date is taken before the reference date
BurnupEndDateItemsFirst(its, ref) == MilestoneEndDate(its)

BurnupEndDate(its, ref) == IF ref # NoDate THEN ref ELSE MilestoneEndDate(its)

\* faulty variant: a window of 30 days
BurnupStartDateThirtyDays(its, ref) == BurnupEndDate(its, ref) - 30

BurnupStartDate(its, ref) == _subtract_months(BurnupEndDate(its, ref), BurnupMonths)

\* faulty variant: cancelled items are not skipped
CreatedDoneStepCountCancelled(acc, item, start, end) ==
    LET status_key == _bucket_status(item.status)
        created_day == item.created_at
        done_day == item.status_updated_at
        outside == done_day < start \/ done_day > end
        counted == [acc EXCEPT !.date_counts =
                        Put(@, created_day, Get(@, created_day, 0) + item.difficulty)]
        isDone == status_key = "done" /\ done_day # NoDate
    IN IF created_day < start \/ created_day > end THEN acc
       ELSE IF isDone /\ ~ outside
       THEN [counted EXCEPT !.completed_counts =
                 Put(@, done_day, Get(@, done_day, 0) + item.difficulty)]
       ELSE counted

\* one iteration of the first loop; acc = [date_counts, completed_counts]
CreatedDoneStep(acc, item, start, end) ==
    LET status_key == _bucket_status(item.status)
        created_day == item.created_at
        done_day == item.status_updated_at
        outside == done_day < start \/ done_day > end
        counted == [acc EXCEPT !.date_counts =
                        Put(@, created_day, Get(@, created_day, 0) + item.difficulty)]
        isDup == _is_duplicate_item(item) /\ done_day # NoDate
        isDone == status_key = "done" /\ done_day # NoDate
        touched == IF isDup
                   THEN [counted EXCEPT !.completed_counts =
                             Put(@, done_day, Get(@, done_day, 0) + 0)]
                   ELSE counted
    IN IF status_key = "cancelled" THEN acc
       ELSE IF created_day < start \/ created_day > end THEN acc
       ELSE IF isDup /\ outside THEN counted
       ELSE IF isDone /\ outside THEN touched
       ELSE IF isDone
       THEN [touched EXCEPT !.completed_counts =
                 Put(@, done_day, Get(@, done_day, 0) + item.difficulty)]
       ELSE touched

RECURSIVE CreatedDoneLoop(_, _, _)
CreatedDoneLoop(its, start, end) ==
    IF its = <<>> THEN [date_counts |-> EmptyDict, completed_counts |-> EmptyDict]
    ELSE CreatedDoneStep(CreatedDoneLoop(SubSeq(its, 1, Len(its) - 1), start, end),
                         its[Len(its)], start, end)

\* faulty variant: a duplicate is filed under its creation day
DuplicateStepCreatedDay(duplicate_counts, item, ref, start, end) ==
    LET day == item.created_at
    IN IF ~ _is_duplicate_item(item) THEN duplicate_counts
       ELSE IF ref # NoDate /\ day > ref THEN duplicate_counts
       ELSE IF day < start \/ day > end THEN duplicate_counts
       ELSE Put(duplicate_counts, day, Get(duplicate_counts, day, 0) + item.difficulty)

\* one iteration of the second loop
DuplicateStep(duplicate_counts, item, ref, start, end) ==
    LET day == IF item.status_updated_at # NoDate
               THEN item.status_updated_at ELSE item.created_at
    IN IF ~ _is_duplicate_item(item) THEN duplicate_counts
       ELSE IF ref # NoDate /\ day > ref THEN duplicate_counts
       ELSE IF day < start \/ day > end THEN duplicate_counts
       ELSE Put(duplicate_counts, day, Get(duplicate_counts, day, 0) + item.difficulty)

RECURSIVE DuplicateLoop(_, _, _, _)
DuplicateLoop(its, ref, start, end) ==
    IF its = <<>> THEN EmptyDict
    ELSE DuplicateStep(DuplicateLoop(SubSeq(its, 1, Len(its) - 1), ref, start, end),
                       its[Len(its)], ref, start, end)

\* faulty variant: only the days on which an item was created
AllDatesCreatedOnly(date_counts, completed_counts, duplicate_counts, start, end) ==
    sorted({d \in DOMAIN date_counts : d >= start /\ d <= end})

\* all_dates
AllDates(date_counts, completed_counts, duplicate_counts, start, end) ==
    LET keys == (DOMAIN date_counts) \cup (DOMAIN completed_counts)
                    \cup (DOMAIN duplicate_counts)
    IN sorted({d \in keys : d >= start /\ d <= end})

\* faulty variant: the day's own count, not accumulated
RunningTotalPerDay(all_dates, counts, k) ==
    IF k = 0 THEN 0 ELSE Get(counts, all_dates[k], 0)

\* the running total after the first k days
RECURSIVE RunningTotal(_, _, _)
RunningTotal(all_dates, counts, k) ==
    IF k = 0 THEN 0
    ELSE RunningTotal(all_dates, counts, k - 1) + Get(counts, all_dates[k], 0)

\* the list the loop over all_dates appends to
Cumulative(all_dates, counts) ==
    [k \in 1..Len(all_dates) |-> RunningTotal(all_dates, counts, k)]

Inc(d, k, v) == Put(d, k, Get(d, k, 0) + v)

\* status_totals: difficulty per bucket, cancelled and duplicate statuses skipped
RECURSIVE StatusTotals(_)
StatusTotals(its) ==
    IF its = <<>>
    THEN [key \in {"backlog", "blocked", "progress", "review", "done", "no_status",
                   "duplicate"} |-> 0]
    ELSE LET totals == StatusTotals(SubSeq(its, 1, Len(its) - 1))
             item == its[Len(its)]
             status_key == _bucket_status(item.status)
         IN IF status_key \in {"cancelled", "duplicate"} THEN totals
            ELSE [totals EXCEPT ![status_key] = @ + item.difficulty]

\* " ".join(text.split())
RECURSIVE JoinWords(_)
JoinWords(s) ==
    IF s = "" THEN ""
    ELSE IF CharAt(s, 1) \in Whitespace THEN " " \o JoinWords(lstrip(s))
    ELSE CharAt(s, 1) \o JoinWords(Tail(s))

MilestoneLabel(item) ==
    strip(JoinWords(strip(IF item.milestone # "" THEN item.milestone ELSE "No Milestone")))

\* one iteration of the milestone loop; acc = [labels (keys in insertion order), map]
MilestoneStep(acc, item) ==
    LET milestone_label == MilestoneLabel(item)
        status_key == _bucket_status(item.status)
        known == milestone_label \in DOMAIN acc.map
        entry == IF known THEN acc.map[milestone_label]
                 ELSE [hours |-> EmptyDict, difficulty |-> EmptyDict, count |-> EmptyDict]
        added == IF status_key \in {"cancelled", "duplicate"} THEN entry
                 ELSE [hours |-> Inc(entry.hours, status_key, item.estimate_hours),
                       difficulty |-> Inc(entry.difficulty, status_key, item.difficulty),
                       count |-> Inc(entry.count, status_key, 1)]
    IN [labels |-> IF known THEN acc.labels ELSE Append(acc.labels, milestone_label),
        map |-> Put(acc.map, milestone_label, added)]

RECURSIVE MilestoneLoop(_)
MilestoneLoop(its) ==
    IF its = <<>> THEN [labels |-> <<>>, map |-> EmptyDict]
    ELSE MilestoneStep(MilestoneLoop(SubSeq(its, 1, Len(its) - 1)), its[Len(its)])

\* faulty variant: items flagged duplicate by a label are left out as well
NotCancelledNorDuplicateItem(item) ==
    _bucket_status(item.status) \notin {"cancelled", "duplicate"} /\ ~ _is_duplicate_item(item)

\* filtered_items of the totals table
NotCancelledNorDuplicate(item) ==
    _bucket_status(item.status) \notin {"cancelled", "duplicate"}

RECURSIVE SumDifficultyOf(_)
SumDifficultyOf(its) ==
    IF its = <<>> THEN 0
    ELSE SumDifficultyOf(SubSeq(its, 1, Len(its) - 1)) + its[Len(its)].difficulty

TotalTable(its) ==
    LET filtered_items == SelectSeq(its, NotCancelledNorDuplicate)
        IsReview(item) == _bucket_status(item.status) = "review"
        IsDone(item) == _bucket_status(item.status) = "done"
    IN [ count_total |-> Len(filtered_items),
         count_review |-> Len(SelectSeq(filtered_items, IsReview)),
         count_done |-> Len(SelectSeq(filtered_items, IsDone)),
         difficulty_total |-> SumDifficultyOf(filtered_items),
         difficulty_review |-> SumDifficultyOf(SelectSeq(filtered_items, IsReview)),
         difficulty_done |-> SumDifficultyOf(SelectSeq(filtered_items, IsDone)) ]

\* _percent: int(round(value / total * 100)), round() taking a half to the even
\* neighbour; value >= 0
_percent(value, total) ==
    IF total <= 0 THEN 0
    ELSE LET q == (100 * value) \div total
             r == (100 * value) % total
         IN IF 2 * r > total THEN q + 1
            ELSE IF 2 * r < total THEN q
            ELSE IF q % 2 = 0 THEN q ELSE q + 1

\* date.weekday(): Monday is 0 (day 0, 2023-01-01, is a Sunday)
weekday(d) == (d + 6) % 7

\* the number of ISO weeks of a year
WeeksInYear(year) ==
    LET jan1 == weekday(date(year, 1, 1))
    IN IF jan1 = 3 \/ (jan1 = 2 /\ IsLeap(year)) THEN 53 ELSE 52

\* date.fromisocalendar(year, week, 1): the Monday of ISO week `week`
fromisocalendar(year, week) ==
    LET jan4 == date(year, 1, 4)
    IN jan4 - weekday(jan4) + 7 * (week - 1)

\* int(text) accepts text: a non-empty run of digits
IsInt(text) == text # "" /\ \A i \in 1..Len(text) : IsDigit(CharAt(text, i))

NoWeek == [ok |-> FALSE, start |-> NoDate, end |-> NoDate]

\* _week_range: (start, end) of the ISO week "YYYY-Www"; None when week_id is
\* empty, does not split in two at "-W", or names no ISO week
_week_range(week) ==
    LET cuts == {i \in 1..(Len(week) - 1) : SubSeq(week, i, i + 1) = "-W"}
    IN IF week = "" \/ Cardinality(cuts) # 1 THEN NoWeek
       ELSE LET i == CHOOSE c \in cuts : TRUE
                year_str == SubSeq(week, 1, i - 1)
                week_str == SubSeq(week, i + 2, Len(week))
            IN IF ~ (IsInt(year_str) /\ IsInt(week_str)) THEN NoWeek
               ELSE LET year == IntVal(year_str)
                        n == IntVal(week_str)
                    IN IF n < 1 \/ n > WeeksInYear(year) THEN NoWeek
                       ELSE [ok |-> TRUE, start |-> fromisocalendar(year, n),
                             end |-> fromisocalendar(year, n) + 6]

\* faulty variant: a status outside week_stats is not counted
WeeklyStepNoFallback(acc, item, end) ==
    LET updated == IF item.status_updated_at # NoDate THEN item.status_updated_at
                   ELSE item.created_at
        status_key == _bucket_status(item.status)
    IN IF updated > end \/ status_key \in {"cancelled", "duplicate"} THEN acc
       ELSE [week_stats |-> IF status_key \in DOMAIN acc.week_stats
                            THEN [acc.week_stats EXCEPT ![status_key] = @ + 1]
                            ELSE acc.week_stats,
             weekly_items |-> Append(acc.weekly_items, item)]

\* one iteration of the weekly loop; acc = [week_stats, weekly_items]
WeeklyStep(acc, item, end) ==
    LET updated == IF item.status_updated_at # NoDate THEN item.status_updated_at
                   ELSE item.created_at
        bucket == _bucket_status(item.status)
        status_key == IF bucket \in DOMAIN acc.week_stats THEN bucket ELSE "backlog"
    IN IF updated > end \/ bucket \in {"cancelled", "duplicate"} THEN acc
       ELSE [week_stats |-> [acc.week_stats EXCEPT ![status_key] = @ + 1],
             weekly_items |-> Append(acc.weekly_items, item)]

RECURSIVE WeeklyLoop(_, _)
WeeklyLoop(its, end) ==
    IF its = <<>>
    THEN [week_stats |-> [key \in {"backlog", "blocked", "progress", "review", "done"} |-> 0],
          weekly_items |-> <<>>]
    ELSE WeeklyStep(WeeklyLoop(SubSeq(its, 1, Len(its) - 1), end), its[Len(its)], end)

\* weekly_table, with week_total, the denominator of its percentages
WeeklyTable(its, week) ==
    LET range == _week_range(week)
        loop == IF range.ok THEN WeeklyLoop(its, range.end) ELSE WeeklyLoop(<<>>, NoDate)
        week_stats == loop.week_stats
        week_total == Len(loop.weekly_items)
    IN [ backlog |-> week_stats["backlog"],
         blocked |-> week_stats["blocked"],
         progress |-> week_stats["progress"],
         review |-> week_stats["review"],
         done |-> week_stats["done"],
         week_total |-> week_total,
         done_percent |-> _percent(week_stats["done"], week_total),
         done_review_percent |->
             _percent(week_stats["done"] + week_stats["review"], week_total) ]

\* the inner loop over one item's labels, by its effect on the dictionary;
\* acc = [labels (insertion order), counts]: a label the dictionary lacks is
\* inserted at its first occurrence, and the entry of the item's bucket grows by
\* one per occurrence
LabelStep(acc, item) ==
    LET labels == item.labels
        fresh == [key \in {"backlog", "progress", "review", "done"} |-> 0]
        bucket == _bucket_status(item.status)
        status_key == IF bucket \in DOMAIN fresh THEN bucket ELSE "backlog"
        IsNew(n) == /\ labels[n] \notin DOMAIN acc.counts
                    /\ \A m \in 1..(n - 1) : labels[m] # labels[n]
        inserted == SelectSeq([n \in 1..Len(labels) |-> n], IsNew)
        times(label) == Cardinality({n \in 1..Len(labels) : labels[n] = label})
    IN [labels |-> acc.labels \o [k \in 1..Len(inserted) |-> labels[inserted[k]]],
        counts |-> [label \in (DOMAIN acc.counts) \cup {labels[n] : n \in 1..Len(labels)} |->
                       LET entry == Get(acc.counts, label, fresh)
                       IN IF bucket \in {"cancelled", "duplicate"} THEN entry
                          ELSE [entry EXCEPT ![status_key] = @ + times(label)]]]

RECURSIVE LabelLoop(_)
LabelLoop(its) ==
    IF its = <<>> THEN [labels |-> <<>>, counts |-> EmptyDict]
    ELSE LabelStep(LabelLoop(SubSeq(its, 1, Len(its) - 1)), its[Len(its)])

LabelTotal(counts, label) ==
    counts[label]["backlog"] + counts[label]["progress"] + counts[label]["review"]
        + counts[label]["done"]

\* faulty variant: among labels of equal total the one inserted last comes first
RECURSIVE SortedLabelsTiesReversed(_, _)
SortedLabelsTiesReversed(labels, counts) ==
    IF labels = <<>> THEN <<>>
    ELSE LET first == CHOOSE k \in 1..Len(labels) :
                          /\ \A j \in 1..Len(labels) :
                                 LabelTotal(counts, labels[j]) <= LabelTotal(counts, labels[k])
                          /\ \A j \in (k + 1)..Len(labels) :
                                 LabelTotal(counts, labels[j]) < LabelTotal(counts, labels[k])
         IN <<labels[first]>> \o
            SortedLabelsTiesReversed(
                SubSeq(labels, 1, first - 1) \o SubSeq(labels, first + 1, Len(labels)), counts)

\* faulty variant: the labels are left in their insertion order
SortedLabelsUnsorted(labels, counts) == labels

\* sorted(label_counts.items(), key=total, reverse=True): stable
RECURSIVE SortedLabels(_, _)
SortedLabels(labels, counts) ==
    IF labels = <<>> THEN <<>>
    ELSE LET first == CHOOSE k \in 1..Len(labels) :
                          /\ \A j \in 1..Len(labels) :
                                 LabelTotal(counts, labels[j]) <= LabelTotal(counts, labels[k])
                          /\ \A j \in 1..(k - 1) :
                                 LabelTotal(counts, labels[j]) < LabelTotal(counts, labels[k])
         IN <<labels[first]>> \o
            SortedLabels(SubSeq(labels, 1, first - 1) \o SubSeq(labels, first + 1, Len(labels)),
                         counts)

\* the number of labels the label chart keeps
TopLabels == 15

\* load_project_charts returned None
NoCharts ==
    [ none |-> TRUE, burnup_start_date |-> NoDate, burnup_end_date |-> NoDate,
      all_dates |-> <<>>, cumulative_scope |-> <<>>, cumulative_done |-> <<>>,
      cumulative_duplicate |-> <<>>, status_totals |-> EmptyDict,
      milestone_labels |-> <<>>, milestone_map |-> EmptyDict, total_table |-> EmptyDict,
      weekly_table |-> EmptyDict,
      label_counts |-> EmptyDict, top_labels |-> <<>> ]

\* what load_project_charts computes from the fetched items
ComputeCharts(all_items, ref, month, week) ==
    LET its == FilteredItems(all_items, ref, month)
    IN IF its = <<>> THEN NoCharts
       ELSE LET end == BurnupEndDate(its, ref)
                start == BurnupStartDate(its, ref)
                first == CreatedDoneLoop(its, start, end)
                duplicate_counts == DuplicateLoop(its, ref, start, end)
                all_dates == AllDates(first.date_counts, first.completed_counts,
                                      duplicate_counts, start, end)
                milestones == MilestoneLoop(all_items)
                by_label == LabelLoop(SelectSeq(its, NotCancelledNorDuplicate))
                sorted_labels == SortedLabels(by_label.labels, by_label.counts)
            IN [ none |-> FALSE,
                 burnup_start_date |-> start,
                 burnup_end_date |-> end,
                 all_dates |-> all_dates,
                 cumulative_scope |-> Cumulative(all_dates, first.date_counts),
                 cumulative_done |-> Cumulative(all_dates, first.completed_counts),
                 cumulative_duplicate |-> Cumulative(all_dates, duplicate_counts),
                 status_totals |-> StatusTotals(its),
                 milestone_labels |-> milestones.labels,
                 milestone_map |-> milestones.map,
                 total_table |-> TotalTable(its),
                 weekly_table |-> WeeklyTable(its, week),
                 label_counts |-> by_label.counts,
                 top_labels |-> SubSeq(sorted_labels, 1, Min(TopLabels, Len(sorted_labels))) ]

----------------------------------------------------------------------------
(* The tracker's items the model draws from *)

Number(v) ==
    [type |-> "ProjectV2ItemFieldNumberValue", number |-> [ok |-> TRUE, value |-> v],
     text |-> ""]

Text(t) ==
    [type |-> "ProjectV2ItemFieldTextValue", number |-> [ok |-> FALSE, value |-> 0],
     text |-> t]

Unset == [type |-> "", number |-> [ok |-> FALSE, value |-> 0], text |-> ""]

\* day n of July 2024
Day(n) == date(2024, 7, n)

Issue ==
    [ createdAt |-> Day(1), typename |-> "Issue", labels |-> <<>>, stateReason |-> "",
      isArchived |-> FALSE, status |-> "Backlog", statusUpdatedAt |-> NoDate,
      iterationId |-> "", iterationTitle |-> "", iterationStart |-> NoDate,
      iterationDuration |-> 0, milestone |-> "", difficulty |-> Number(3 * Scale),
      estimate |-> Unset ]

\* one label more than TopLabels
ManyLabels ==
    << "l01", "l02", "l03", "l04", "l05", "l06", "l07", "l08", "l09", "l10", "l11",
       "l12", "l13", "l14", "l15", "l16" >>

RawNodes ==
    { \* (a) (b) (c) of the burn-up scenario
      Issue,
      [Issue EXCEPT !.status = "Done", !.statusUpdatedAt = Day(5),
                    !.difficulty = Number(2 * Scale)],
      [Issue EXCEPT !.createdAt = Day(2), !.status = "Duplicate",
                    !.difficulty = Number(1 * Scale)],
      \* done, and flagged duplicate by a label
      [Issue EXCEPT !.createdAt = Day(2), !.status = "Done", !.statusUpdatedAt = Day(3),
                    !.labels = <<"bug", " Duplicate">>, !.difficulty = Number(2 * Scale),
                    !.estimate = Text("4,5 h")],
      \* archived and closed as not planned; a difficulty text with a minus sign
      [Issue EXCEPT !.createdAt = Day(3), !.isArchived = TRUE,
                    !.stateReason = "NOT_PLANNED", !.status = "In review",
                    !.statusUpdatedAt = Day(3), !.difficulty = Text("-3"),
                    !.labels = <<"bug">>],
      \* a pull request
      [Issue EXCEPT !.typename = "PullRequest", !.createdAt = Day(2), !.status = "Done",
                    !.statusUpdatedAt = Day(3), !.difficulty = Number(5 * Scale),
                    !.labels = <<"bug">>],
      \* a draft issue without a status, in an iteration of a milestone
      [Issue EXCEPT !.typename = "DraftIssue", !.createdAt = Day(4), !.status = "",
                    !.difficulty = Text("7.5"), !.milestone = "SPRINT 10",
                    !.iterationId = "it1", !.iterationTitle = "Iteration 1",
                    !.iterationStart = Day(1), !.iterationDuration = 14],
      \* cancelled, carrying a duplicate label, creation time missing
      [Issue EXCEPT !.createdAt = NoDate, !.status = "Cancelled",
                    !.statusUpdatedAt = Day(4), !.labels = <<"duplicado">>,
                    !.difficulty = Number(2 * Scale)],
      \* created before the window, duplicate by status
      [Issue EXCEPT !.createdAt = date(2024, 1, 10), !.status = "Concluído (duplicado)",
                    !.statusUpdatedAt = Day(4), !.difficulty = Text("P2-ish")],
      \* done after the reference date, carrying more labels than the chart keeps
      [Issue EXCEPT !.createdAt = Day(2), !.status = "Done", !.statusUpdatedAt = Day(8),
                    !.difficulty = Number(1 * Scale), !.labels = ManyLabels] }

\* the (reference_date, milestone_month, week_id) arguments of the modelled calls
Calls ==
    { <<NoDate, "", "2024-W28">>, <<Day(5), "", "2024-W27">>,
      <<Day(5), "Sprint 1", "2024-W27">> }

----------------------------------------------------------------------------
(* Spec: load_project_charts, from the first GraphQL page to its return *)

Init ==
    /\ pc = "fetch"
    /\ arg = ""
    /\ ret = ""
    /\ nodes = <<>>
    /\ items = <<>>
    /\ \E call \in Calls :
           reference_date = call[1] /\ milestone_month = call[2] /\ week_id = call[3]
    /\ charts = NoCharts
    /\ IdleRetry /\ IdleScheduler /\ IdleReports

\* the tracker delivers one more node and the fetch loop body runs on it
FetchItem ==
    /\ pc = "fetch"
    /\ Len(nodes) < MaxItems
    /\ \E node \in RawNodes :
           /\ nodes' = Append(nodes, node)
           /\ items' = FetchNode(items, node)
    /\ UNCHANGED <<pc, arg, ret, reference_date, milestone_month, week_id, charts, retryVars, schedulerVars, reportVars>>

\* _run_graphql raises requests.RequestException: load_project_charts returns None
FetchFailed ==
    /\ pc = "fetch"
    /\ pc' = "failed"
    /\ items' = <<>>
    /\ nodes' = <<>>
    /\ charts' = NoCharts
    /\ UNCHANGED <<arg, ret, reference_date, milestone_month, week_id, retryVars, schedulerVars, reportVars>>

\* the last page had no next page: the rest of load_project_charts runs
LoadProjectCharts ==
    /\ pc = "fetch"
    /\ pc' = "done"
    /\ charts' = ComputeCharts(items, reference_date, milestone_month, week_id)
    /\ UNCHANGED <<arg, ret, nodes, items, reference_date, milestone_month, week_id, retryVars, schedulerVars, reportVars>>

Next == FetchItem \/ FetchFailed \/ LoadProjectCharts

Spec == Init /\ [][Next]_vars

----------------------------------------------------------------------------
(* SpecStatus: _bucket_status applied to generated status texts *)

StatusKeywords ==
    { "cancel", "canceled", "cancelled", "duplicate", "duplicado",
      "done", "concl", "closed", "finalizado", "review", "revis", "qa",
      "progress", "andamento", "doing", "wip", "blocked", "bloqueado", "imped",
      "backlog", "todo", "pendente", "to do", "ready", "planning" }

\* one keyword of each category
CategoryWords == {"cancel", "duplicado", "done", "review", "wip", "blocked", "todo"}

\* texts of at most n words: any keyword (or a word that is none) first, then
\* words of which one per category is drawn
RECURSIVE StatusTexts(_)
StatusTexts(n) ==
    IF n = 0 THEN {""}
    ELSE IF n = 1 THEN {""} \cup StatusKeywords \cup {"item"}
    ELSE LET shorter == StatusTexts(n - 1)
         IN shorter \cup
            {t \o " " \o w : t \in shorter \ {""}, w \in CategoryWords \cup {"item"}}

StatusInputs ==
    LET texts == StatusTexts(MaxStatusWords)
    IN texts \cup {upper(t) : t \in texts} \cup {"  " \o t \o "\t" : t \in texts}
           \cup {"Concluído (duplicado)", "Done (duplicate)", "Ready for review"}

IdleCharts ==
    /\ nodes = <<>>
    /\ items = <<>>
    /\ reference_date = NoDate
    /\ milestone_month = ""
    /\ week_id = ""
    /\ charts = NoCharts

InitStatus ==
    /\ pc = "call"
    /\ arg \in StatusInputs
    /\ ret = ""
    /\ IdleCharts
    /\ IdleRetry /\ IdleScheduler /\ IdleReports

BucketStatus ==
    /\ pc = "call"
    /\ pc' = "return"
    /\ ret' = _bucket_status(arg)
    /\ UNCHANGED <<arg, nodes, items, reference_date, milestone_month, week_id, charts, retryVars, schedulerVars, reportVars>>

NextStatus == BucketStatus

SpecStatus == InitStatus /\ [][NextStatus]_vars

\* the order and the keyword sets the claim states
CategoryOrder ==
    << <<"cancelled", {"cancel", "canceled", "cancelled"}>>,
       <<"duplicate", {"duplicate", "duplicado"}>>,
       <<"done", {"done", "concl", "closed", "finalizado"}>>,
       <<"review", {"review", "revis", "qa"}>>,
       <<"progress", {"progress", "andamento", "doing", "wip"}>>,
       <<"blocked", {"blocked", "bloqueado", "imped"}>>,
       <<"backlog", {"backlog", "todo", "pendente", "to do", "ready", "planning"}>> >>

MatchingCategories(status) ==
    {k \in 1..Len(CategoryOrder) :
         \E key \in CategoryOrder[k][2] : Contains(lower(strip(status)), key)}

\* C7: a status text that contains keywords of one or several categories is
\* classified as the earliest of them in the order cancelled, duplicate, done,
\* review, progress, blocked, backlog.
C7_FirstMatchingCategoryWins ==
    (pc = "return" /\ MatchingCategories(arg) # {}) =>
        LET first == CHOOSE k \in MatchingCategories(arg) :
                         \A m \in MatchingCategories(arg) : k <= m
        IN ret = CategoryOrder[first][1]

C7_Witness ==
    /\ pc = "return"
    /\ arg = "Concluído (duplicado)"
    /\ MatchingCategories(arg) = {2, 3}
    /\ ret = "duplicate"

----------------------------------------------------------------------------
(* SpecDifficulty: _map_difficulty_label applied to generated labels *)

LabelChars == {"P", "2", "7", "5", ".", ",", "-", "s", "x", " "}

RECURSIVE LabelTexts(_)
LabelTexts(n) ==
    IF n = 0 THEN {""}
    ELSE LET shorter == LabelTexts(n - 1)
         IN shorter \cup {c \o t : c \in LabelChars, t \in shorter}

DifficultyInputs == LabelTexts(MaxLabelLen) \cup {"P2-ish", "7.5", "XL", "est-5", "1,25"}

InitDifficulty ==
    /\ pc = "call"
    /\ arg \in DifficultyInputs
    /\ ret = [projects |-> 0, integrations |-> 0]
    /\ IdleCharts
    /\ IdleRetry /\ IdleScheduler /\ IdleReports

MapDifficultyLabel ==
    /\ pc = "call"
    /\ pc' = "return"
    /\ ret' = [projects |-> _map_difficulty_label(arg),
               integrations |-> github_map_difficulty_label(arg)]
    /\ UNCHANGED <<arg, nodes, items, reference_date, milestone_month, week_id, charts, retryVars, schedulerVars, reportVars>>

NextDifficulty == MapDifficultyLabel

SpecDifficulty == InitDifficulty /\ [][NextDifficulty]_vars

\* C8: the label "P2-ish" maps to 3, the label "7.5" to 7.5, and the empty
\* label (or None) to 0, in both copies of the mapping.
C8_DifficultyScenario ==
    pc = "return" =>
        /\ arg = "P2-ish" => ret = [projects |-> 3 * Scale, integrations |-> 3 * Scale]
        /\ arg = "7.5" => ret = [projects |-> 7 * Scale + Scale \div 2,
                                 integrations |-> 7 * Scale + Scale \div 2]
        /\ arg = "" => ret = [projects |-> 0, integrations |-> 0]

C8_Witness == pc = "return" /\ arg = "P2-ish" /\ ret.projects = 3 * Scale

----------------------------------------------------------------------------
(* SpecDuplicate: _is_duplicate_item applied to the items fetched from       *)
(* generated issues                                                          *)

DuplicateStatuses ==
    {"", "Backlog", "Done", "Duplicate", "DUPLICADO ", "Cancelled (duplicate)",
     "Concluído (duplicado)"}

DuplicateLabels == {"bug", "duplicate", "Duplicado", " DUPLICATE ", "duplicates"}

RECURSIVE LabelLists(_)
LabelLists(n) ==
    IF n = 0 THEN {<<>>}
    ELSE LET shorter == LabelLists(n - 1)
         IN shorter \cup {<<l>> \o ls : l \in DuplicateLabels, ls \in shorter}

StateReasons == {"", "COMPLETED", "NOT_PLANNED", "DUPLICATE"}

DuplicateInputs ==
    {[Issue EXCEPT !.status = st, !.labels = ls, !.stateReason = sr] :
         st \in DuplicateStatuses, ls \in LabelLists(MaxLabels), sr \in StateReasons}

InitDuplicate ==
    /\ pc = "call"
    /\ arg \in DuplicateInputs
    /\ ret = FALSE
    /\ IdleCharts
    /\ IdleRetry /\ IdleScheduler /\ IdleReports

IsDuplicateItem ==
    /\ pc = "call"
    /\ pc' = "return"
    /\ ret' = _is_duplicate_item(ProjectItem(arg))
    /\ UNCHANGED <<arg, nodes, items, reference_date, milestone_month, week_id, charts, retryVars, schedulerVars, reportVars>>

NextDuplicate == IsDuplicateItem

SpecDuplicate == InitDuplicate /\ [][NextDuplicate]_vars

\* the duplicate synonym set
DuplicateSynonyms == {"duplicate", "duplicado"}

HasDuplicateLabel(item) ==
    \E k \in 1..Len(item.labels) : lower(item.labels[k]) \in DuplicateSynonyms

\* C9 as claimed: an item is a duplicate exactly when its status classifies as
\* duplicate, or one of its labels is (case-insensitively) a duplicate synonym,
\* or the issue was closed with the reason "duplicate".
C9_Original ==
    pc = "return" =>
        ret = ( \/ _bucket_status(ProjectItem(arg).status) = "duplicate"
                \/ HasDuplicateLabel(ProjectItem(arg))
                \/ arg.stateReason = "DUPLICATE" )

\* C9 as amended: an item is a duplicate exactly when its status classifies as
\* duplicate or one of its labels is (case-insensitively) a duplicate synonym;
\* the reason the issue was closed with plays no part.
C9_DuplicateByStatusOrLabel ==
    pc = "return" =>
        ret = ( \/ _bucket_status(ProjectItem(arg).status) = "duplicate"
                \/ HasDuplicateLabel(ProjectItem(arg)) )

C9_Witness ==
    /\ pc = "return"
    /\ arg.stateReason = "DUPLICATE"
    /\ arg.status = "Done"
    /\ arg.labels = <<"bug">>
    /\ ret = FALSE

----------------------------------------------------------------------------
(* Claims about the burn-up of load_project_charts (checked under Spec) *)

\* load_project_charts returned charts
Charted == pc = "done" /\ ~ charts.none

\* the items the aggregation works on
Eligible == FilteredItems(items, reference_date, milestone_month)

Last(series) == series[Len(series)]

RECURSIVE SumDifficulty(_, _)
SumDifficulty(its, S) ==
    IF S = {} THEN 0
    ELSE LET k == CHOOSE x \in S : TRUE
         IN its[k].difficulty + SumDifficulty(its, S \ {k})

InWindow(day) == charts.burnup_start_date <= day /\ day <= charts.burnup_end_date

NonDecreasing(series) == \A k \in 2..Len(series) : series[k] >= series[k - 1]

\* C2 as claimed: the three series never decrease, whatever difficulty the
\* mapping produced from the tracker's fields.
C2_Original ==
    Charted =>
        /\ NonDecreasing(charts.cumulative_scope)
        /\ NonDecreasing(charts.cumulative_done)
        /\ NonDecreasing(charts.cumulative_duplicate)

\* C2 as amended: the three series never decrease when no item has a negative
\* difficulty (a difficulty text such as "-3" maps to a negative number).
C2_MonotoneForNonNegative ==
    (Charted /\ \A k \in 1..Len(Eligible) : Eligible[k].difficulty >= 0) =>
        /\ NonDecreasing(charts.cumulative_scope)
        /\ NonDecreasing(charts.cumulative_done)
        /\ NonDecreasing(charts.cumulative_duplicate)

C2_Witness ==
    /\ Charted
    /\ \A k \in 1..Len(Eligible) : Eligible[k].difficulty >= 0
    /\ Len(charts.all_dates) = 3
    /\ charts.cumulative_scope[1] > 0
    /\ charts.cumulative_scope[2] > charts.cumulative_scope[1]
    /\ charts.cumulative_done[3] > charts.cumulative_done[2]
    /\ charts.cumulative_duplicate[2] > charts.cumulative_duplicate[1]

DuplicateDay(item) ==
    IF item.status_updated_at # NoDate THEN item.status_updated_at ELSE item.created_at

DoneAdded(item) ==
    LET alone == CreatedDoneStep([date_counts |-> EmptyDict, completed_counts |-> EmptyDict],
                                 item, charts.burnup_start_date, charts.burnup_end_date)
    IN \E day \in DOMAIN alone.completed_counts : alone.completed_counts[day] # 0

\* what the second loop adds to duplicate_counts for one item alone
DuplicateAdded(item) ==
    LET alone == DuplicateStep(EmptyDict, item, reference_date,
                               charts.burnup_start_date, charts.burnup_end_date)
    IN \E day \in DOMAIN alone : alone[day] # 0

\* C4: no item's difficulty is added to both the done and the duplicate series;
\* a duplicate-flagged item adds nothing to done.
C4_NoItemInDoneAndDuplicate ==
    Charted =>
        \A k \in 1..Len(Eligible) :
            /\ ~ (DoneAdded(Eligible[k]) /\ DuplicateAdded(Eligible[k]))
            /\ _is_duplicate_item(Eligible[k]) => ~ DoneAdded(Eligible[k])

\* C5: with non-negative difficulties the final open scope, last scope minus
\* last done minus last duplicate, is not negative.
C5_OpenScopeNotNegative ==
    (/\ Charted
     /\ charts.all_dates # <<>>
     /\ \A k \in 1..Len(Eligible) : Eligible[k].difficulty >= 0) =>
        Last(charts.cumulative_scope) - Last(charts.cumulative_done)
            - Last(charts.cumulative_duplicate) >= 0

\* the three issues of the scenario, in the order the tracker lists them
ScenarioNodes ==
    << Issue,
       [Issue EXCEPT !.status = "Done", !.statusUpdatedAt = Day(5),
                     !.difficulty = Number(2 * Scale)],
       [Issue EXCEPT !.createdAt = Day(2), !.status = "Duplicate",
                     !.difficulty = Number(1 * Scale)] >>

Scenario ==
    /\ pc = "done"
    /\ nodes = ScenarioNodes
    /\ reference_date = Day(5)
    /\ milestone_month = ""

Times(series, factor) == [k \in 1..Len(series) |-> series[k] * factor]

\* C6 as claimed: the scenario yields scope [3,4,4,4,4], done [0,0,0,0,2],
\* duplicate [0,1,1,1,1] and a final open scope of 1.
C6_Original ==
    Scenario =>
        /\ charts.cumulative_scope = Times(<<3, 4, 4, 4, 4>>, Scale)
        /\ charts.cumulative_done = Times(<<0, 0, 0, 0, 2>>, Scale)
        /\ charts.cumulative_duplicate = Times(<<0, 1, 1, 1, 1>>, Scale)
        /\ Last(charts.cumulative_scope) - Last(charts.cumulative_done)
               - Last(charts.cumulative_duplicate) = 1 * Scale

\* C6 as amended: with reference date day 5 the scenario yields, on the event
\* days [day1, day2, day5], scope [5,6,6], done [0,0,2], duplicate [0,1,1] and
\* a final open scope of 3.
C6_ScenarioOnEventDays ==
    Scenario =>
        /\ ~ charts.none
        /\ charts.all_dates = <<Day(1), Day(2), Day(5)>>
        /\ charts.cumulative_scope = Times(<<5, 6, 6>>, Scale)
        /\ charts.cumulative_done = Times(<<0, 0, 2>>, Scale)
        /\ charts.cumulative_duplicate = Times(<<0, 1, 1>>, Scale)
        /\ Last(charts.cumulative_scope) - Last(charts.cumulative_done)
               - Last(charts.cumulative_duplicate) = 3 * Scale

C6_Witness == Scenario /\ Charted /\ Len(charts.all_dates) = 3

\* is_eligible of the claim, on the tracker's node
NodeEligible(node) ==
    /\ node.typename \notin {"PullRequest", "DraftIssue"}
    /\ ~ node.isArchived
    /\ node.stateReason # "NOT_PLANNED"

NotPullRequest(node) == node.typename # "PullRequest"

ItemsOf(ns) == [k \in 1..Len(ns) |-> ProjectItem(ns[k])]

\* C10 as claimed: pull requests, draft issues, archived items and items closed
\* as not planned contribute to no series and to no table: the result is the
\* one the eligible nodes alone give.
C10_Original ==
    pc = "done" =>
        charts = ComputeCharts(ItemsOf(SelectSeq(nodes, NodeEligible)),
                               reference_date, milestone_month, week_id)

\* C10 as amended: pull requests contribute to no series and to no table (the
\* result is the one all other nodes alone give); draft issues, archived items
\* and items closed as not planned are aggregated like any other item.
C10_PullRequestsContributeNothing ==
    pc = "done" =>
        /\ \A k \in 1..Len(items) : items[k].content_type # "PullRequest"
        /\ (\E k \in 1..Len(nodes) : ~ NotPullRequest(nodes[k])) =>
               charts = ComputeCharts(ItemsOf(SelectSeq(nodes, NotPullRequest)),
                                      reference_date, milestone_month, week_id)

C10_Witness ==
    /\ Charted
    /\ \E k \in 1..Len(nodes) : nodes[k].typename = "PullRequest"
    /\ \E k \in 1..Len(nodes) : nodes[k].typename = "DraftIssue"
    /\ \E k \in 1..Len(items) : items[k].content_type = "DraftIssue"
    /\ Last(charts.cumulative_scope) > 0

----------------------------------------------------------------------------
(* C11: the no-data outcome *)

\* the milestone a run filters by ("" = no milestone filter)
TargetMilestone ==
    IF milestone_month = "" THEN _get_latest_milestone(items) ELSE milestone_month

\* the item passes the milestone filter and the reference-date filter
Remains(item) ==
    /\ TargetMilestone = ""
          \/ (item.milestone # "" /\ _milestone_matches(item.milestone, TargetMilestone))
    /\ reference_date = NoDate \/ item.created_at <= reference_date

\* C11: when no fetched item remains after the milestone and reference-date
\* filters (an empty fetched list included), load_project_charts returns None:
\* no series and no table is produced.
C11_NoItemRemainsGivesNone ==
    (pc = "done" /\ \A k \in 1..Len(items) : ~ Remains(items[k])) => charts = NoCharts

\* items were fetched, every one was filtered out, and the call returned None
C11_Witness ==
    /\ pc = "done"
    /\ Len(items) >= 2
    /\ \A k \in 1..Len(items) : ~ Remains(items[k])
    /\ \E k \in 1..Len(items) : items[k].created_at > reference_date /\ reference_date # NoDate
    /\ \E k \in 1..Len(items) : TargetMilestone # "" /\ items[k].milestone = ""
    /\ charts.none

----------------------------------------------------------------------------
(* SpecMalformed: fetch_project_items and load_project_charts on nodes whose *)
(* fields are missing or malformed                                            *)

\* a number field whose value is null
NullNumber ==
    [type |-> "ProjectV2ItemFieldNumberValue", number |-> [ok |-> FALSE, value |-> 0],
     text |-> ""]

\* a node every field of which is well formed
WellFormed ==
    [Issue EXCEPT !.createdAt = Day(2), !.status = "Done", !.statusUpdatedAt = Day(3),
                  !.difficulty = Number(2 * Scale), !.estimate = Text("4,5 h"),
                  !.iterationId = "it1", !.iterationTitle = "Iteration 1",
                  !.iterationStart = Day(1), !.iterationDuration = 14]

\* WellFormed with one field missing or malformed, and with all of them so
MalformedNodes ==
    { WellFormed,
      [WellFormed EXCEPT !.createdAt = NoDate],
      [WellFormed EXCEPT !.createdAt = Malformed],
      [WellFormed EXCEPT !.statusUpdatedAt = Malformed],
      [WellFormed EXCEPT !.difficulty = NullNumber],
      [WellFormed EXCEPT !.difficulty = Text("n/a")],
      [WellFormed EXCEPT !.estimate = Text("soon")],
      [WellFormed EXCEPT !.iterationStart = Malformed],
      [WellFormed EXCEPT !.createdAt = Malformed, !.statusUpdatedAt = Malformed,
                         !.difficulty = Text("n/a"), !.estimate = NullNumber,
                         !.iterationStart = Malformed, !.status = ""] }

InitMalformed ==
    /\ pc = "fetch"
    /\ arg = ""
    /\ ret = ""
    /\ nodes = <<>>
    /\ items = <<>>
    /\ reference_date \in {NoDate, Day(5)}
    /\ milestone_month = ""
    /\ week_id \in {"", "2024W27"}
    /\ charts = NoCharts
    /\ IdleRetry /\ IdleScheduler /\ IdleReports

\* the fetch loop body runs on a node with missing or malformed fields
FetchMalformed ==
    /\ pc = "fetch"
    /\ Len(nodes) < MaxItems
    /\ \E node \in MalformedNodes :
           /\ nodes' = Append(nodes, node)
           /\ items' = FetchNode(items, node)
    /\ UNCHANGED <<pc, arg, ret, reference_date, milestone_month, week_id, charts, retryVars, schedulerVars, reportVars>>

\* the rest of load_project_charts runs on the fetched items
ChartMalformed ==
    /\ pc = "fetch"
    /\ pc' = "done"
    /\ charts' = ComputeCharts(items, reference_date, milestone_month, week_id)
    /\ UNCHANGED <<arg, ret, nodes, items, reference_date, milestone_month, week_id, retryVars, schedulerVars, reportVars>>

NextMalformed == FetchMalformed \/ ChartMalformed

SpecMalformed == InitMalformed /\ [][NextMalformed]_vars

\* the date a raw value stands for, `default` when it is missing or malformed
DateOr(value, default) == IF value >= 0 THEN value ELSE default

\* the value of a text field that holds no scale key and no number is 0
TextValue(text) == IF text \in {"n/a", "soon"} THEN 0 ELSE (9 * Scale) \div 2

\* C12: a node with missing or malformed fields is not dropped and stops
\* nothing: each such field takes its default (created_at today,
\* status_updated_at and the iteration dates None, difficulty and estimate 0),
\* the well-formed fields keep their values, and the report is produced
\* whenever an item remains after filtering.
C12_MalformedFieldsTakeDefaults ==
    /\ Len(items) = Len(nodes)
    /\ \A k \in 1..Len(nodes) :
           LET node == nodes[k]
               item == items[k]
           IN /\ item.created_at = DateOr(node.createdAt, Today)
              /\ item.status_updated_at = DateOr(node.statusUpdatedAt, NoDate)
              /\ item.iteration_start = DateOr(node.iterationStart, NoDate)
              /\ item.iteration_end =
                     (IF node.iterationStart >= 0 THEN node.iterationStart + 14 ELSE NoDate)
              /\ item.difficulty =
                     (IF node.difficulty.number.ok THEN 2 * Scale ELSE 0)
              /\ item.estimate_hours =
                     (IF node.estimate.type = "ProjectV2ItemFieldTextValue"
                      THEN TextValue(node.estimate.text) ELSE 0)
              /\ item.status = node.status
    /\ pc = "done" =>
           (charts.none <=> \A k \in 1..Len(items) : ~ Remains(items[k]))
    /\ (pc = "done" /\ ~ charts.none) =>
           charts.total_table.count_total =
               Cardinality({k \in 1..Len(items) : Remains(items[k])})

\* a report produced from a list that holds a node with every field malformed
C12_Witness ==
    /\ pc = "done"
    /\ ~ charts.none
    /\ \E k \in 1..Len(nodes) :
           /\ nodes[k].createdAt = Malformed
           /\ nodes[k].difficulty.text = "n/a"
           /\ nodes[k].estimate = NullNumber
           /\ items[k].created_at = Today
           /\ items[k].difficulty = 0
    /\ \E k \in 1..Len(nodes) : nodes[k] = WellFormed

----------------------------------------------------------------------------
(* C13, C14, C15: the weekly table and the totals table *)

\* the week the weekly table is cut off at was given and names an ISO week
WeekGiven == _week_range(week_id).ok

\* the day an item last changed status (its creation day when it never did)
UpdatedDay(item) ==
    IF item.status_updated_at # NoDate THEN item.status_updated_at ELSE item.created_at

\* the eligible items the weekly table counts: updated by the end of the week,
\* status neither cancelled nor duplicate
WeeklyCounted ==
    LET week == _week_range(week_id)
        its == Eligible
    IN {k \in 1..Len(its) :
            /\ week.ok
            /\ UpdatedDay(its[k]) <= week.end
            /\ _bucket_status(its[k].status) \notin {"cancelled", "duplicate"}}

\* C13: in the weekly table the counts of backlog, blocked, progress, review
\* and done add up to the number of items the table counts, which is the
\* denominator of its two percentages (duplicates are not reported and not
\* counted); in the totals table the done and review counts are part of the
\* total count, the denominator of its percentages.
C13_WeeklyCountsAddUpToTotal ==
    Charted =>
        LET w == charts.weekly_table
            t == charts.total_table
        IN /\ w.backlog + w.blocked + w.progress + w.review + w.done = w.week_total
           /\ w.week_total = Cardinality(WeeklyCounted)
           /\ t.count_done + t.count_review <= t.count_total
           /\ t.count_total =
                  LET its == Eligible IN
                  Cardinality({k \in 1..Len(its) :
                      _bucket_status(its[k].status) \notin {"cancelled", "duplicate"}})

\* a weekly table that counts an item without status, and one that drops a
\* duplicate
C13_Witness ==
    /\ Charted
    /\ WeekGiven
    /\ charts.weekly_table.week_total >= 1
    /\ \E k \in WeeklyCounted : Eligible[k].status = ""

\* the eligible items, neither cancelled nor duplicate by status, whose status
\* changed after the end of the week
ChangedAfterWeek ==
    LET week == _week_range(week_id)
        its == Eligible
    IN {k \in 1..Len(its) :
            /\ week.ok
            /\ its[k].status_updated_at # NoDate
            /\ its[k].status_updated_at > week.end
            /\ _bucket_status(its[k].status) \notin {"cancelled", "duplicate"}}

\* C14: in the weekly table an item whose status changed after the cutoff is
\* counted in the backlog bucket: it is not dropped from the table.
C14_LateStatusCountsAsBacklog ==
    Charted =>
        /\ charts.weekly_table.backlog >= Cardinality(ChangedAfterWeek)
        /\ charts.weekly_table.week_total >=
               Cardinality(WeeklyCounted) + Cardinality(ChangedAfterWeek)

\* the eligible items of status done that carry a duplicate label
DoneFlaggedDuplicate ==
    LET its == Eligible IN
    {k \in 1..Len(its) :
         _bucket_status(its[k].status) = "done" /\ _is_duplicate_item(its[k])}

\* the eligible items of status done
DoneByStatus ==
    LET its == Eligible IN {k \in 1..Len(its) : _bucket_status(its[k].status) = "done"}

\* C15: in the status totals, the totals table, the weekly table and the label
\* table an item of status done that is also flagged duplicate (by a label) is
\* counted in done, count and difficulty: it is neither removed nor counted as
\* duplicate.
C15_DoneDuplicateCountsAsDone ==
    Charted =>
        LET done == DoneByStatus IN
        /\ charts.total_table.count_done = Cardinality(done)
        /\ charts.total_table.difficulty_done = SumDifficulty(Eligible, done)
        /\ charts.status_totals["done"] = SumDifficulty(Eligible, done)
        /\ charts.status_totals["duplicate"] = 0
        /\ charts.weekly_table.done = Cardinality(done \cap WeeklyCounted)
        /\ \A k \in DoneFlaggedDuplicate :
               \A n \in 1..Len(Eligible[k].labels) :
                   /\ Eligible[k].labels[n] \in DOMAIN charts.label_counts
                   /\ charts.label_counts[Eligible[k].labels[n]]["done"] >= 1

\* a done item with a duplicate label was counted in done
C15_Witness ==
    /\ Charted
    /\ DoneFlaggedDuplicate # {}
    /\ DoneByStatus \ DoneFlaggedDuplicate # {}
    /\ charts.total_table.count_done >= 2
    /\ charts.weekly_table.done >= 1

----------------------------------------------------------------------------
(* C16, C17, C18: the burn-up window *)

\* the set of values of a date-valued sequence
DatesOf(its, At(_)) == {At(its[k]) : k \in 1..Len(its)}

Earliest(S) == CHOOSE d \in S : \A e \in S : d <= e

Latest(S) == CHOOSE d \in S : \A e \in S : e <= d

DueDate(item) == item.iteration_end

CreatedDay(item) == item.created_at

\* the due dates the eligible items carry
DueDates == DatesOf(Eligible, DueDate) \ {NoDate}

\* C16 as claimed: end_date is the earliest due date among the eligible items
\* when one carries a due date, otherwise the reference date, today when none
\* is given.
C16_Original ==
    Charted =>
        charts.burnup_end_date =
            (IF DueDates # {} THEN Earliest(DueDates)
             ELSE IF reference_date # NoDate THEN reference_date ELSE Today)

\* C16 as amended: end_date is the reference date when one is given; otherwise
\* it is the latest, among the eligible items, of the item's iteration end date
\* (its creation date when it has no iteration).
C16_EndIsReferenceOrLatestItemDate ==
    Charted =>
        charts.burnup_end_date =
            (IF reference_date # NoDate THEN reference_date
             ELSE Latest(DatesOf(Eligible, ItemDate)))

\* no reference date, and the end date is the end of an item's iteration,
\* later than the creation of every item
C16_Witness ==
    /\ Charted
    /\ reference_date = NoDate
    /\ charts.burnup_end_date \in DueDates
    /\ \A k \in 1..Len(Eligible) : Eligible[k].created_at < charts.burnup_end_date

\* C17 as claimed: start_date is the earliest creation date among the eligible
\* items, and end_date - 30 days when that date is after end_date.
C17_Original ==
    Charted =>
        charts.burnup_start_date =
            (IF Earliest(DatesOf(Eligible, CreatedDay)) <= charts.burnup_end_date
             THEN Earliest(DatesOf(Eligible, CreatedDay))
             ELSE charts.burnup_end_date - 30)

\* C17 as amended: start_date is end_date moved back five calendar months: the
\* same day of the month, or the last day of that month when it is shorter,
\* whatever the creation dates of the items.
C17_StartIsFiveMonthsBeforeEnd ==
    Charted =>
        LET e == charts.burnup_end_date
            s == charts.burnup_start_date
            wraps == MonthOf(e) <= 5
        IN /\ YearOf(s) = (IF wraps THEN YearOf(e) - 1 ELSE YearOf(e))
           /\ MonthOf(s) = (IF wraps THEN MonthOf(e) + 7 ELSE MonthOf(e) - 5)
           /\ DayOf(s) = Min(DayOf(e), _days_in_month(YearOf(s), MonthOf(s)))

\* a window ending on the 31st starts on the last day of February, although
\* every item was created in July
C17_Witness ==
    /\ Charted
    /\ charts.burnup_end_date = date(2024, 7, 31)
    /\ charts.burnup_start_date = date(2024, 2, 28 + 1)
    /\ Earliest(DatesOf(Eligible, CreatedDay)) >= Day(1)

\* C18: the burn-up window satisfies start_date <= end_date and every date of
\* the burn-up x-axis lies within [start_date, end_date].
C18_WindowOrderedAndDatesInside ==
    Charted =>
        /\ charts.burnup_start_date <= charts.burnup_end_date
        /\ \A k \in 1..Len(charts.all_dates) :
               /\ charts.burnup_start_date <= charts.all_dates[k]
               /\ charts.all_dates[k] <= charts.burnup_end_date

\* a chart with dates, from a list holding an item created before the window
\* and an item whose status changed after it
C18_Witness ==
    /\ Charted
    /\ charts.all_dates # <<>>
    /\ \E k \in 1..Len(Eligible) : Eligible[k].created_at < charts.burnup_start_date
    /\ \E k \in 1..Len(Eligible) : Eligible[k].status_updated_at > charts.burnup_end_date

----------------------------------------------------------------------------------------------------------------------------------------
(* C19, C20: the label table *)

\* the items the label table counts
Counted == SelectSeq(Eligible, NotCancelledNorDuplicate)

\* the (item, position) pairs of a list of items, in the order of the label loop
LabelSlots(its) ==
    {kn \in (1..Len(its)) \X (1..(TopLabels + 1)) : kn[2] <= Len(its[kn[1]].labels)}

LabelAt(its, kn) == its[kn[1]].labels[kn[2]]

Before(a, b) == a[1] < b[1] \/ (a[1] = b[1] /\ a[2] < b[2])

\* the slot at which the label loop first meets each label the items carry
FirstDiscovery(its) ==
    LET slots == LabelSlots(its)
    IN [label \in {LabelAt(its, kn) : kn \in slots} |->
            CHOOSE kn \in slots :
                /\ LabelAt(its, kn) = label
                /\ \A other \in slots : LabelAt(its, other) = label =>
                       (other = kn \/ Before(kn, other))]

\* the number of slots that hold each label
Occurrences(its) ==
    LET slots == LabelSlots(its)
    IN [label \in {LabelAt(its, kn) : kn \in slots} |->
            Cardinality({kn \in slots : LabelAt(its, kn) = label})]

\* the total count of each label of the table
Totals == [label \in DOMAIN charts.label_counts |-> LabelTotal(charts.label_counts, label)]

Listed == {charts.top_labels[i] : i \in 1..Len(charts.top_labels)}

\* the spec names no reserved label; the code excludes none, so any label an
\* item carries can stand for it
ReservedLabel == "bug"

\* at most TopLabels labels, in descending order of total count, each item
\* counted once under each of its labels
LabelTableShape ==
    LET totals == Totals
        top == charts.top_labels
    IN /\ Len(top) <= TopLabels
       /\ \A i \in 1..(Len(top) - 1) : totals[top[i]] >= totals[top[i + 1]]
       /\ totals = Occurrences(Counted)

\* C19 as claimed: the label table holds at most 15 labels in descending order
\* of total count, counts an item once under each of its labels, and never
\* lists the reserved label.
C19_Original ==
    Charted => (LabelTableShape /\ ReservedLabel \notin Listed)

\* C19 as amended: the label table holds at most 15 labels in descending order
\* of total count and counts an item once under each of its labels; no label
\* is excluded: every label a counted item carries is listed, unless 15 labels
\* of at least its total count are.
C19_TopLabelsNoneExcluded ==
    Charted =>
        LET totals == Totals
            listed == Listed
            carried == DOMAIN Occurrences(Counted)
            least == IF listed = {} THEN 0
                     ELSE totals[charts.top_labels[Len(charts.top_labels)]]
        IN /\ LabelTableShape
           /\ listed \subseteq carried
           /\ Len(charts.top_labels) = Cardinality(listed)
           /\ Cardinality(listed) = Min(TopLabels, Cardinality(carried))
           /\ \A label \in carried \ listed : totals[label] <= least

\* seventeen labels or more, one of them on several items: the table is cut
\* at fifteen, and an item with two labels is counted under both
C19_Witness ==
    /\ Charted
    /\ Cardinality(DOMAIN charts.label_counts) > TopLabels
    /\ Len(charts.top_labels) = TopLabels
    /\ Totals[charts.top_labels[1]] >= 2
    /\ "Duplicate" \in DOMAIN charts.label_counts
    /\ Totals["Duplicate"] = 1

\* C20: labels of equal total count appear in the label table in the order in
\* which the input first shows them (the table being a function of the item
\* sequence and the parameters alone, two runs on the same input agree).
C20_TiesInDiscoveryOrder ==
    Charted =>
        LET totals == Totals
            first == FirstDiscovery(Counted)
            top == charts.top_labels
        IN \A i \in 1..(Len(top) - 1) :
               totals[top[i]] = totals[top[i + 1]] => Before(first[top[i]], first[top[i + 1]])

\* a label of a larger total that the input shows later leads the table, and
\* labels of equal total follow it
C20_Witness ==
    /\ Charted
    /\ Len(charts.top_labels) >= 3
    /\ Totals[charts.top_labels[1]] > Totals[charts.top_labels[2]]
    /\ Totals[charts.top_labels[2]] = Totals[charts.top_labels[3]]
    /\ Before(FirstDiscovery(Counted)[charts.top_labels[2]],
              FirstDiscovery(Counted)[charts.top_labels[1]])

----------------------------------------------------------------------------
(* C21, C26: the three series day by day, and cancelled items *)

C26_CancelledContributesNothing ==
    Charted =>
        LET its == Eligible
            n == 1..Len(its)
            start == charts.burnup_start_date
            counted == {k \in n : /\ _bucket_status(its[k].status) # "cancelled"
                                  /\ InWindow(its[k].created_at)}
            done == {k \in counted : /\ _bucket_status(its[k].status) = "done"
                                     /\ its[k].status_updated_at # NoDate
                                     /\ its[k].status_updated_at >= start}
            duplicate == {k \in n : /\ _bucket_status(its[k].status) # "cancelled"
                                    /\ _is_duplicate_item(its[k])
                                    /\ DuplicateDay(its[k]) >= start}
        IN \A i \in 1..Len(charts.all_dates) :
               LET d == charts.all_dates[i] IN
               /\ charts.cumulative_scope[i] =
                      SumDifficulty(its, {k \in counted : its[k].created_at <= d})
               /\ charts.cumulative_done[i] =
                      SumDifficulty(its, {k \in done : its[k].status_updated_at <= d})
               /\ charts.cumulative_duplicate[i] =
                      SumDifficulty(its, {k \in duplicate : DuplicateDay(its[k]) <= d})

----------------------------------------------------------------------------
(* C22: the order of the two lookups of _map_difficulty_label (checked       *)
(* under SpecDifficulty)                                                     *)

\* the label contains a numeric literal: it contains a digit
HasNumber(label) == \E i \in 1..Len(label) : IsDigit(CharAt(label, i))

\* the grade of the ordinal scale the upper-cased, stripped label starts with
\* (0 when it starts with none)
Grade(label) ==
    LET text == upper(strip(label))
        c1 == IF Len(text) >= 1 THEN CharAt(text, 1) ELSE ""
        c2 == IF Len(text) >= 2 THEN CharAt(text, 2) ELSE ""
    IN IF c1 = "X" /\ c2 = "S" THEN 1 * Scale
       ELSE IF c1 = "X" /\ c2 = "L" THEN 5 * Scale
       ELSE IF c1 = "S" THEN 2 * Scale
       ELSE IF c1 = "M" THEN 3 * Scale
       ELSE IF c1 = "L" THEN 4 * Scale
       ELSE IF c1 = "P" /\ c2 \in {"0", "1", "2", "3", "4"} THEN (5 - DigitVal(c2)) * Scale
       ELSE 0

\* C22 as claimed: a numeric literal in the label is returned when there is
\* one; the ordinal scale is consulted only when there is none; a label
\* matching neither gives 0.
C22_Original ==
    pc = "return" =>
        ret.projects = IF HasNumber(arg) THEN _parse_numeric_from_text(arg)
                       ELSE IF Grade(arg) # 0 THEN Grade(arg)
                       ELSE 0

\* C22 as amended: the ordinal scale is consulted first, by prefix of the
\* stripped, upper-cased label, and its grade is returned also when the label
\* contains a numeric literal; the first numeric literal of the label is
\* returned only when the label starts with no scale key; a label matching
\* neither gives 0.
C22_ScaleFirstThenNumber ==
    pc = "return" =>
        ret.projects = IF Grade(arg) # 0 THEN Grade(arg)
                       ELSE IF HasNumber(arg) THEN _parse_numeric_from_text(arg)
                       ELSE 0

\* a label that starts with a scale key and contains a number was mapped to the
\* grade of the key
C22_Witness ==
    /\ pc = "return"
    /\ HasNumber(arg)
    /\ Grade(arg) # 0
    /\ ret.projects = Grade(arg)
    /\ ret.projects # _parse_numeric_from_text(arg)

----------------------------------------------------------------------------
(* The fetch routines: _request_with_retry of integrations/github.py,       *)
(* _request_with_retry of milestones.py and _run_graphql of                  *)
(* github_projects.py. One call is followed at a time: retry holds its       *)
(* locals, the responses it received and the delays it slept; _auth_failed   *)
(* is the module global of integrations/github.py and outlives the calls.    *)
(* Delays are in 1/Scale of a second.                                        *)

\* largest max_attempts a caller passes
MaxAttempts == 3

\* the default of the parameter max_attempts of both _request_with_retry
DefaultMaxAttempts == 3

\* the default of the parameter base_delay (0.5 s)
base_delay == Scale \div 2

\* what one request gives: status 0 is no response at all (connection error
\* or timeout, a RequestException that is no HTTPError); remaining is the
\* header X-RateLimit-Remaining ("" = absent), retry_after the header
\* Retry-After in seconds (0 = absent), errors whether the JSON body has a
\* member "errors"
Responses ==
    LET Response(status, remaining, retry_after, errors) ==
            [status |-> status, remaining |-> remaining,
             retry_after |-> retry_after, errors |-> errors]
    IN {Response(200, "", 0, FALSE), Response(200, "", 0, TRUE),
        Response(401, "", 0, FALSE),
        Response(429, "0", 2, FALSE), Response(429, "", 2, FALSE),
        Response(500, "", 0, FALSE), Response(0, "", 0, FALSE)}

RECURSIVE Pow2(_)
Pow2(n) == IF n = 0 THEN 1 ELSE 2 * Pow2(n - 1)

\* the exception the try body of integrations/github.py raises for a response
\* ("" = none, the response is returned)
GithubRaises(response) ==
    IF response.status = 0 THEN "RequestException"
    ELSE IF response.status = 401 THEN "RequestException"
    ELSE IF response.status \in {403, 429} /\ response.remaining = "0"
        THEN "RequestException"
    ELSE IF response.status >= 400 THEN "HTTPError"
    ELSE ""

\* the exception the try body of milestones.py raises for a response
MilestonesRaises(response) ==
    IF response.status = 0 THEN "RequestException"
    ELSE IF response.status >= 400 THEN "HTTPError"
    ELSE ""

\* the exception _run_graphql raises for a response
GraphqlRaises(response) ==
    IF response.status = 0 THEN "RequestException"
    ELSE IF response.status # 200 THEN "RequestException"
    ELSE IF response.errors THEN "RequestException"
    ELSE ""

\* one of the routines is called when no call is running (the loop variable
\* attempt is 1; _run_graphql has no loop)
Call ==
    /\ retry.pc \in {"none", "returned", "raised"}
    /\ \E routine \in {"github", "milestones", "graphql"},
          max_attempts \in 1..MaxAttempts :
           retry' = [routine |-> routine,
                     max_attempts |-> IF routine = "graphql" THEN 1 ELSE max_attempts,
                     attempt |-> 1, pc |-> "request", exc |-> "",
                     responses |-> <<>>, delays |-> <<>>]
    /\ UNCHANGED <<_auth_failed, chartVars, schedulerVars, reportVars>>

\* one request and the try body after it; _run_graphql has no handler, so
\* its exception leaves the call
Request ==
    /\ retry.pc = "request"
    /\ \E response \in Responses :
           LET exc == IF retry.routine = "github" THEN GithubRaises(response)
                      ELSE IF retry.routine = "milestones"
                          THEN MilestonesRaises(response)
                      ELSE GraphqlRaises(response)
           IN
           /\ retry' = [retry EXCEPT
                  !.responses = Append(@, response),
                  !.exc = exc,
                  !.pc = IF exc = "" THEN "returned"
                         ELSE IF retry.routine = "graphql" THEN "raised"
                         ELSE "except"]
           /\ _auth_failed' = IF retry.routine = "github" /\ response.status = 401
                              THEN TRUE ELSE _auth_failed
    /\ UNCHANGED <<chartVars, schedulerVars, reportVars>>

\* the faulty variant: the except clause does not look at _auth_failed
GithubExceptRetriesAuth(r, auth_failed) ==
    IF r.attempt >= r.max_attempts THEN [r EXCEPT !.pc = "raised"]
    ELSE LET response == r.responses[Len(r.responses)]
             retry_after == IF r.exc = "HTTPError" THEN response.retry_after ELSE 0
             delay == base_delay * Pow2(r.attempt - 1)
         IN [r EXCEPT !.delays = Append(@, IF retry_after * Scale > delay
                                           THEN retry_after * Scale ELSE delay),
                      !.attempt = @ + 1,
                      !.pc = "request"]

\* the except clause of integrations/github.py: break (and raise after the
\* loop) when the flag is set or at the last attempt, else sleep and go on
GithubExcept(r, auth_failed) ==
    IF auth_failed THEN [r EXCEPT !.pc = "raised"]
    ELSE IF r.attempt >= r.max_attempts THEN [r EXCEPT !.pc = "raised"]
    ELSE LET response == r.responses[Len(r.responses)]
             retry_after == IF r.exc = "HTTPError" THEN response.retry_after ELSE 0
             delay == base_delay * Pow2(r.attempt - 1)
         IN [r EXCEPT !.delays = Append(@, IF retry_after * Scale > delay
                                           THEN retry_after * Scale ELSE delay),
                      !.attempt = @ + 1,
                      !.pc = "request"]

\* the except clause of milestones.py
MilestonesExcept(r) ==
    IF r.attempt >= r.max_attempts THEN [r EXCEPT !.pc = "raised"]
    ELSE [r EXCEPT !.delays = Append(@, base_delay * Pow2(r.attempt - 1)),
                   !.attempt = @ + 1,
                   !.pc = "request"]

Except ==
    /\ retry.pc = "except"
    /\ retry' = IF retry.routine = "github" THEN GithubExcept(retry, _auth_failed)
                ELSE MilestonesExcept(retry)
    /\ UNCHANGED <<_auth_failed, chartVars, schedulerVars, reportVars>>

InitRetry ==
    /\ pc = "idle"
    /\ arg = ""
    /\ ret = ""
    /\ IdleCharts
    /\ IdleRetry /\ IdleScheduler /\ IdleReports

NextRetry == Call \/ Request \/ Except

SpecRetry == InitRetry /\ [][NextRetry]_vars

\* the call ended
Ended(r) == r.pc \in {"returned", "raised"}

\* the call received a 401
SawAuthFailure(r) == \E i \in 1..Len(r.responses) : r.responses[i].status = 401

\* C23: every fetch is retried with backoff: the call makes at most
\* max_attempts requests (the default for _run_graphql, which has no such
\* parameter); when it returned, its last response was a success; the wait
\* before attempt k+1 was at least base_delay * 2^(k-1) and at least the
\* Retry-After of response k when one was sent; when it raised, it had made
\* all its attempts (or had just received a 401, see C25).
C23_EveryFetchRetriedWithBackoff ==
    retry.pc # "none" =>
        LET n == Len(retry.responses)
            budget == IF retry.routine = "graphql" THEN DefaultMaxAttempts
                      ELSE retry.max_attempts
        IN /\ n <= budget
           /\ retry.pc = "returned" =>
                  /\ retry.responses[n].status = 200
                  /\ retry.routine = "graphql" => ~ retry.responses[n].errors
           /\ Len(retry.delays) = (IF Ended(retry) \/ retry.pc = "except" THEN n - 1 ELSE n)
           /\ \A k \in 1..Len(retry.delays) :
                  /\ retry.delays[k] >= base_delay * Pow2(k - 1)
                  /\ retry.delays[k] >= retry.responses[k].retry_after * Scale
           /\ retry.pc = "raised" =>
                  n = budget \/ retry.responses[n].status = 401

\* C24: the auth-failure state is per call: a call of _request_with_retry of
\* integrations/github.py that raised without having received a 401 itself
\* made all its max_attempts attempts, whatever earlier calls received.
C24_AuthFailureIsPerCall ==
    (/\ retry.routine = "github"
     /\ retry.pc = "raised"
     /\ ~ SawAuthFailure(retry))
        => Len(retry.responses) = retry.max_attempts

\* C25: in _request_with_retry of integrations/github.py a 401 is never
\* retried: it is the last response of its call, and the call raises.
C25_AuthFailureNeverRetried ==
    retry.routine = "github" =>
        \A i \in 1..Len(retry.responses) :
            retry.responses[i].status = 401 =>
                /\ i = Len(retry.responses)
                /\ retry.pc \in {"except", "raised"}
                /\ retry.delays = SubSeq(retry.delays, 1, i - 1)

\* a call with attempts left received a 401 after a retry and raised at once
C25_Witness ==
    /\ retry.routine = "github"
    /\ retry.pc = "raised"
    /\ retry.max_attempts = 3
    /\ Len(retry.responses) = 2
    /\ retry.responses[2].status = 401
    /\ Len(retry.delays) = 1

----------------------------------------------------------------------------
(* The scheduler: the loop of start_scheduler. The clock now counts half     *)
(* minutes: the loop sleeps 30 s between two passes, so it reads the same     *)
(* minute in up to two passes. A pass reads the clock once and visits the     *)
(* schedules of the configuration in the order of the code: channel by        *)
(* channel, the publish schedules then the collect schedules.                 *)

\* last half minute of the clock
MaxTicks == 7

\* most half minutes between the clock readings of two passes (the sleep of
\* 30 s and the time the pass took)
MaxStep == 3

\* the minutes the clock goes through: two minutes a day, from Monday
\* 2024-07-01 on; date, weekday and "%H:%M" of the half minute t
Clock(t) ==
    [date |-> Day(1) + (t \div 4),
     weekday |-> (t \div 4) % 7,
     current_time |-> IF (t \div 2) % 2 = 0 THEN "09:00" ELSE "09:01"]

\* the channels of the one project of project_teams_config (team_slug "" =
\* none)
Channels ==
    LET Schedule(days, times) == [days |-> days, times |-> times] IN
    << [name |-> "dev", team_slug |-> "backend", enabled |-> TRUE,
        webhook_url |-> "https://hooks/dev",
        publish_pdf |-> <<Schedule({0, 1, 2, 3, 4}, {"09:00"}),
                          Schedule({0}, {"09:00", "09:01"})>>,
        collect |-> <<Schedule({0, 1}, {"09:01"})>>],
       [name |-> "geral", team_slug |-> "", enabled |-> TRUE,
        webhook_url |-> "https://hooks/geral",
        publish_pdf |-> <<Schedule({1}, {"09:00"})>>,
        collect |-> <<Schedule({0}, {"09:00"})>>],
       [name |-> "off", team_slug |-> "", enabled |-> FALSE,
        webhook_url |-> "https://hooks/off",
        publish_pdf |-> <<Schedule({0, 1}, {"09:00", "09:01"})>>,
        collect |-> <<>>],
       [name |-> "nohook", team_slug |-> "", enabled |-> TRUE,
        webhook_url |-> "",
        publish_pdf |-> <<>>,
        collect |-> <<Schedule({0, 1}, {"09:00"})>>] >>

project_slug == "drones"

\* the schedules of one kind of one channel, each with what the loop needs
RECURSIVE Visits(_, _, _)
Visits(channel, kind, schedules) ==
    IF schedules = <<>> THEN <<>>
    ELSE <<[kind |-> kind, channel |-> channel, schedule |-> Head(schedules)]>>
             \o Visits(channel, kind, Tail(schedules))

\* the schedules one pass visits, in the order of the two nested loops
RECURSIVE Work(_)
Work(channels) ==
    IF channels = <<>> THEN <<>>
    ELSE LET channel == Head(channels) IN
         Visits(channel, "publish", channel.publish_pdf)
             \o Visits(channel, "collect", channel.collect)
             \o Work(Tail(channels))

\* the key of a schedule at the clock reading t: the fields the f-string joins
Key(visit, t) ==
    [kind |-> visit.kind,
     project_slug |-> project_slug,
     team_slug |-> IF visit.channel.team_slug = "" THEN "all"
                   ELSE visit.channel.team_slug,
     channel_name |-> visit.channel.name,
     date |-> Clock(t).date,
     current_time |-> Clock(t).current_time]

\* the loop reaches the send of this schedule: the channel is enabled and has
\* a webhook, and the schedule has the weekday and the minute of the clock
Due(visit, t) ==
    /\ visit.channel.enabled
    /\ visit.channel.webhook_url # ""
    /\ Clock(t).weekday \in visit.schedule.days
    /\ Clock(t).current_time \in visit.schedule.times

\* the faulty variant: the sent set is not consulted
NeverAlreadySent(key, sent_keys) == FALSE

\* if key in state["sent"]
AlreadySent(key, sent_keys) == key \in sent_keys

\* the thread goes on to the next schedule of the pass, or to time.sleep(30)
\* after the last one
Advance(t) ==
    IF t.i >= Len(Work(Channels)) THEN [pc |-> "sleep", i |-> 0]
    ELSE [t EXCEPT !.i = @ + 1]

\* the loop passes over a schedule: not due, or its key is in the sent set
Skip ==
    /\ thread.pc = "visit"
    /\ LET visit == Work(Channels)[thread.i] IN
       ~ Due(visit, now) \/ AlreadySent(Key(visit, now), sent)
    /\ thread' = Advance(thread)
    /\ UNCHANGED <<now, sent, deliveries, chartVars, retryVars, reportVars>>

\* the loop sends for a due schedule: _send_project_message or
\* _send_collect_message posts the message and returns, returns without
\* posting (no base_url, no report to publish), or raises (the webhook failed
\* after its retries, the PDF could not be rendered); the key is added when
\* the call returned; an exception leaves _loop, which ends the thread
Send ==
    /\ thread.pc = "visit"
    /\ LET visit == Work(Channels)[thread.i]
           key == Key(visit, now)
       IN /\ Due(visit, now)
          /\ ~ AlreadySent(key, sent)
          /\ \E outcome \in {"posted", "nothing", "raised"} :
                 /\ deliveries' = Append(deliveries,
                        [key |-> key, outcome |-> outcome, at |-> now])
                 /\ IF outcome = "raised"
                    THEN /\ thread' = [pc |-> "dead", i |-> 0]
                         /\ sent' = sent
                    ELSE /\ thread' = Advance(thread)
                         /\ sent' = sent \cup {key}
    /\ UNCHANGED <<now, chartVars, retryVars, reportVars>>

\* time.sleep(30) returns and the next pass reads the clock
Wake ==
    /\ thread.pc = "sleep"
    /\ \E step \in 1..MaxStep :
           /\ now + step <= MaxTicks
           /\ now' = now + step
    /\ thread' = [pc |-> "visit", i |-> 1]
    /\ UNCHANGED <<sent, deliveries, chartVars, retryVars, reportVars>>

\* start_scheduler started the thread, whose first pass read the clock
InitScheduler ==
    /\ pc = "idle"
    /\ arg = ""
    /\ ret = ""
    /\ IdleCharts
    /\ IdleRetry /\ IdleReports
    /\ now \in {0, 1}
    /\ thread = [pc |-> "visit", i |-> 1]
    /\ sent = {}
    /\ deliveries = <<>>

NextScheduler == Skip \/ Send \/ Wake

SpecScheduler == InitScheduler /\ [][NextScheduler]_vars

\* C27: the scheduler calls the send at most once per key (kind, project,
\* team, channel name, date, HH:MM), and a key is in the sent set only when
\* a send for it returned.
C27_AtMostOneSendPerKey ==
    /\ \A i, j \in 1..Len(deliveries) :
           deliveries[i].key = deliveries[j].key => i = j
    /\ \A key \in sent :
           \E i \in 1..Len(deliveries) :
               deliveries[i].key = key /\ deliveries[i].outcome # "raised"
    /\ \A i \in 1..Len(deliveries) :
           deliveries[i].outcome = "raised" => deliveries[i].key \notin sent

\* a second pass in the same minute went over a schedule already sent in the
\* first one
C27_Witness ==
    /\ thread.pc = "sleep"
    /\ now % 2 = 1
    /\ \E i \in 1..Len(deliveries) :
           /\ deliveries[i].at = now - 1
           /\ deliveries[i].outcome = "posted"
           /\ deliveries[i].key \in sent
           /\ deliveries[i].key.current_time = Clock(now).current_time

\* C28: a delivery that raised does not stop the scheduler: the thread of the
\* loop is still running after it.
C28_FailedDeliveryDoesNotStopScheduler ==
    (\E i \in 1..Len(deliveries) : deliveries[i].outcome = "raised")
        => thread.pc # "dead"

----------------------------------------------------------------------------
(* The report store: POST /{project_slug}/reports (routes/reports.py) and    *)
(* create_report, get_existing_report_id (db.py). The handler is an async    *)
(* function without any await: the event loop runs it from its first line to *)
(* its response before it starts another one, so requests that are in flight *)
(* together are handled one after the other, in any order. reports is the    *)
(* set of rows of table reports, tasks the rows of table tasks in the order  *)
(* of their insertion.                                                       *)

\* most requests
MaxSubmissions == 2

\* the teams of the project and their members (project_teams_config)
Members(team_slug) ==
    IF team_slug = "backend" THEN {"ana", "bob"}
    ELSE IF team_slug = "web" THEN {"eve"}
    ELSE {}

\* the form fields of a request that matter here: week_id and team_slug ""
\* = not given, tasks the task_url of the entries of tasks_json,
\* links_ok whether deliveries_links_json parses
Submission(week, team_slug, developer_name, task_urls, summary, overwrite, links_ok) ==
    [week_id |-> week, team_slug |-> team_slug, developer_name |-> developer_name,
     tasks |-> task_urls, summary |-> summary, overwrite |-> overwrite,
     links_ok |-> links_ok]

SubmissionInputs ==
    {Submission("2024-W27", "backend", "ana", <<"t1">>, "s1", FALSE, TRUE),
     Submission("2024-W27", "backend", "ana", <<"t2", "t3">>, "s2", TRUE, TRUE),
     Submission("2024-W27", "backend", "ana", <<"t2">>, "s3", FALSE, FALSE),
     Submission("2024-W27", "backend", "ana", <<"t1">>, "s3", TRUE, FALSE),
     Submission("2024-W27", "backend", "bob", <<"t1">>, "s1", FALSE, TRUE),
     Submission("", "backend", "ana", <<"t1">>, "s1", TRUE, TRUE),
     Submission("2024-W27", "backend", "ana", <<>>, "s4", FALSE, TRUE),
     Submission("2024-W27", "backend", "eve", <<"t1">>, "s1", TRUE, TRUE),
     Submission("2024-W27", "", "ana", <<"t1">>, "s1", FALSE, TRUE)}

\* if not week_id: week_id = the ISO week of date.today()
WeekOf(p) == IF p.week_id = "" THEN "2024-W31" ELSE p.week_id

\* the rows the SELECT of get_existing_report_id and of create_report matches
Matching(rows, week, project, team_slug, developer_name) ==
    {row \in rows : /\ row.week_id = week
                    /\ row.project_slug = project
                    /\ row.team_slug = team_slug
                    /\ row.developer_name = developer_name}

\* get_existing_report_id: the id of the latest matching row (0 = None)
get_existing_report_id(rows, week, project, team_slug, developer_name) ==
    LET found == Matching(rows, week, project, team_slug, developer_name) IN
    IF found = {} THEN 0
    ELSE (CHOOSE row \in found : \A other \in found : other.id <= row.id).id

\* the rows create_report inserts into table tasks for a report
TaskRows(report_id, task_urls) ==
    [i \in 1..Len(task_urls) |-> [report_id |-> report_id, task_url |-> task_urls[i]]]

\* the row of a payload
ReportRow(id, payload) ==
    [id |-> id, week_id |-> payload.week_id, project_slug |-> payload.project_slug,
     team_slug |-> payload.team_slug, developer_name |-> payload.developer_name,
     summary |-> payload.summary]

\* the faulty variant: the row is inserted without looking for an existing one
CreateReportAlwaysInsert(rows, task_rows, payload) ==
    LET report_id == Cardinality(rows) + 1 IN
    [reports |-> rows \cup {ReportRow(report_id, payload)},
     tasks |-> task_rows \o TaskRows(report_id, payload.tasks)]

\* db.create_report: insert the row when the key has none (its id is the
\* next rowid: no row is ever deleted), else update the latest row of the key
\* and delete its tasks; then insert the tasks
create_report(rows, task_rows, payload) ==
    LET existing == get_existing_report_id(rows, payload.week_id, payload.project_slug,
                                           payload.team_slug, payload.developer_name)
    IN IF existing = 0
       THEN LET report_id == Cardinality(rows) + 1 IN
            [reports |-> rows \cup {ReportRow(report_id, payload)},
             tasks |-> task_rows \o TaskRows(report_id, payload.tasks)]
       ELSE [reports |-> {IF row.id = existing THEN ReportRow(existing, payload) ELSE row
                          : row \in rows},
             tasks |-> SelectSeq(task_rows, LAMBDA t : t.report_id # existing)
                           \o TaskRows(existing, payload.tasks)]

\* the checks before the lookup: tasks_json has a task, the team is given and
\* is a team of the project, the developer is a member of it
Validated(p) ==
    /\ p.tasks # <<>>
    /\ p.team_slug \in {"backend", "web"}
    /\ p.developer_name \in Members(p.team_slug)

\* the faulty variant: no 409, the submission goes on to create_report
StatusWithoutConflict(rows, p) ==
    IF ~ Validated(p) THEN 400
    ELSE IF ~ p.links_ok THEN 400
    ELSE 200

\* the status code of the response of the handler
Status(rows, p) ==
    IF ~ Validated(p) THEN 400
    ELSE IF /\ get_existing_report_id(rows, WeekOf(p), project_slug, p.team_slug,
                                      p.developer_name) # 0
            /\ ~ p.overwrite THEN 409
    ELSE IF ~ p.links_ok THEN 400
    ELSE 200

\* the payload the handler passes to db.create_report
PayloadOf(p) ==
    [week_id |-> WeekOf(p), project_slug |-> project_slug, team_slug |-> p.team_slug,
     developer_name |-> p.developer_name, summary |-> p.summary, tasks |-> p.tasks]

\* a request arrives (status 0 = not answered yet)
Arrive ==
    /\ Len(submissions) < MaxSubmissions
    /\ \E p \in SubmissionInputs :
           submissions' = Append(submissions, [form |-> p, status |-> 0, order |-> 0])
    /\ UNCHANGED <<reports, tasks, chartVars, retryVars, schedulerVars>>

\* the event loop runs the handler of one of the requests in flight
Handle ==
    /\ \E r \in DOMAIN submissions :
           /\ submissions[r].status = 0
           /\ LET p == submissions[r].form
                  status == Status(reports, p)
                  stored == create_report(reports, tasks, PayloadOf(p))
                  handled == Cardinality({o \in DOMAIN submissions :
                                              submissions[o].status # 0})
              IN /\ submissions' = [submissions EXCEPT ![r].status = status,
                                                       ![r].order = handled + 1]
                 /\ reports' = IF status = 200 THEN stored.reports ELSE reports
                 /\ tasks' = IF status = 200 THEN stored.tasks ELSE tasks
    /\ UNCHANGED <<chartVars, retryVars, schedulerVars>>

InitReports ==
    /\ pc = "idle"
    /\ arg = ""
    /\ ret = ""
    /\ IdleCharts
    /\ IdleRetry /\ IdleScheduler /\ IdleReports

NextReports == Arrive \/ Handle

SpecReports == InitReports /\ [][NextReports]_vars

\* the key of a row
KeyOf(row) == <<row.week_id, row.project_slug, row.team_slug, row.developer_name>>

\* the task_url of the tasks of a report, in the order of the table
RECURSIVE UrlsOf(_, _)
UrlsOf(task_rows, report_id) ==
    IF task_rows = <<>> THEN <<>>
    ELSE IF Head(task_rows).report_id = report_id
        THEN <<Head(task_rows).task_url>> \o UrlsOf(Tail(task_rows), report_id)
    ELSE UrlsOf(Tail(task_rows), report_id)

\* the accepted requests for the key of a row
AcceptedFor(row) ==
    {r \in DOMAIN submissions :
         /\ submissions[r].status = 200
         /\ KeyOf(ReportRow(0, PayloadOf(submissions[r].form))) = KeyOf(row)}

\* C29: after any sequence of submissions, handled in any order, the store
\* has at most one report per (week_id, project_slug, team_slug,
\* developer_name); the row and its tasks are those of the accepted
\* submission for the key that was handled last; every task belongs to a row.
C29_AtMostOneReportPerKey ==
    /\ \A a, b \in reports : KeyOf(a) = KeyOf(b) => a = b
    /\ \A row \in reports :
           LET accepted == AcceptedFor(row) IN
           /\ accepted # {}
           /\ LET last == CHOOSE r \in accepted :
                              \A o \in accepted : submissions[o].order <= submissions[r].order
              IN /\ row.summary = submissions[last].form.summary
                 /\ UrlsOf(tasks, row.id) = submissions[last].form.tasks
    /\ \A i \in 1..Len(tasks) : \E row \in reports : row.id = tasks[i].report_id

\* two submissions for one key were in flight together and both accepted: one
\* row, with the tasks of the one handled last
C29_Witness ==
    /\ Len(submissions) = 2
    /\ submissions[1].status = 200
    /\ submissions[2].status = 200
    /\ submissions[2].order = 1
    /\ submissions[1].form.overwrite
    /\ submissions[1].form.tasks # submissions[2].form.tasks
    /\ Cardinality(reports) = 1
    /\ \E row \in reports : UrlsOf(tasks, row.id) = submissions[1].form.tasks

\* the request r is answered in this step, its key had a report and it does
\* not set overwrite
RejectedCase(r) ==
    /\ r \in DOMAIN submissions
    /\ submissions[r].status = 0
    /\ submissions'[r].status # 0
    /\ ~ submissions[r].form.overwrite
    /\ Matching(reports, WeekOf(submissions[r].form), project_slug,
                submissions[r].form.team_slug,
                submissions[r].form.developer_name) # {}

====
